---- MODULE Spec2Model ----
(***************************************************************************)
(* Model of the subtitle acquisition and caching pipeline of the Stremio   *)
(* titulky.com add-on (src/server.js, src/lib/titulkyClient.js).           *)
(*                                                                         *)
(* Node runs one thread: a handler runs without interruption up to its     *)
(* next await.  An await on a pending promise (network call, timer, a      *)
(* download lock) suspends the handler until an external event or a        *)
(* resolve() call; the continuation of a settled promise is a microtask,   *)
(* and every queued microtask runs before the next external event.  The    *)
(* model keeps the microtask queue in mq: an action that stands for an     *)
(* external event (a request arriving, a network response, a timer, the    *)
(* passing of time) is enabled only when mq is empty, and a microtask      *)
(* action runs the request at the head of mq.                              *)
(*                                                                         *)
(* Time is counted in units of 30 minutes.  The code stores the time of an *)
(* event (an entry's insertion, a login) and only ever reads the           *)
(* difference Date.now() - time; the model keeps that difference, the age, *)
(* and lets it grow with every unit of time up to the threshold it is      *)
(* compared with.                                                          *)
(***************************************************************************)
EXTENDS Integers, Sequences, FiniteSets, TLC

\* ---------------------------------------------------------------- bounds
MaxReq == 3
MaxWait == 2
MaxAdmin == 1
MaxAdminReq == 2

\* ------------------------------------------------------ program constants
\* 60 * 60 * 1000 ms, in units of 30 minutes
SUBTITLE_CACHE_TTL == 2
\* 30 * 60 * 1000 ms, in units of 30 minutes
LOGIN_FRESH == 1

Reqs == 1..MaxReq
\* a subtitle id, and every object name, is its sequence of dot-separated parts
SubIds == {<<"101">>, <<"102">>}

\* decodeConfig(req.params.config): null, or the decoded object
BadConfig == [ok |-> FALSE, username |-> "", omni |-> FALSE]
Config(username, omni) == [ok |-> TRUE, username |-> username, omni |-> omni]

\* the subtitles requested: one id under two link tokens, and a second id
Requested == {<<<<"101">>, "film-101">>, <<<<"101">>, "film-x">>, <<<<"102">>, "film-102">>}

\* a file name, split at its last dot
FileName(base, ext) == [base |-> base, ext |-> ext]

\* a Buffer: its byte-order mark, whether its UTF-8 decoding passes
\* isValidUtf8, and the text each decoding gives
Buf(bom, valid, u8, u16, cp) ==
  [bom |-> bom, valid |-> valid, u8 |-> u8, u16 |-> u16, cp |-> cp]

VARIABLES
  mq,              \* microtask queue: requests whose awaited promise has settled
  pc,              \* where each request's handler is suspended
  rq,              \* req.params of each request (of those still to arrive, too)
  resp,            \* what res.send() sent, per request
  subtitleCache,   \* Map cacheKey -> {content, filename, age = now - time}
  downloadLocks,   \* Map subId -> Promise (named by the request that made it)
  resolved,        \* lock promises whose resolveLock() was called
  waiters,         \* per lock promise, the requests awaiting it, in order
  r2,              \* objects of the bucket: key -> {content, meta}
  r2CachedIds,     \* Set of ids
  puts,            \* r2Put calls in flight: request -> {content, filename}
  clientCache,     \* Map username -> TitulkyClient (named by its creator)
  clients,         \* TitulkyClient objects: loggedIn, lastLoginTime, loginPromise
  cl,              \* the client a request holds
  loc,             \* locals of a request: r2Cached, the timer's deadline
  s3,              \* whether the S3 client exists (r2Enabled)
  listTodo,        \* whether the startup listing is still to be answered
  hist,            \* per request: what it has done so far (observation only)
  adm,             \* the custom-delete or restore request being handled
  call             \* a search() call or a pure function being evaluated

vars == <<mq, pc, rq, resp, subtitleCache, downloadLocks, resolved,
          waiters, r2, r2CachedIds, puts, clientCache, clients, cl, loc,
          s3, listTodo, hist, adm, call>>

\* ------------------------------------------------------------ Map helpers
EmptyMap == [x \in {} |-> 0]
MapSet(m, k, v) == [x \in (DOMAIN m) \cup {k} |-> IF x = k THEN v ELSE m[x]]
MapDel(m, k) == [x \in (DOMAIN m) \ {k} |-> m[x]]
Has(m, k) == k \in DOMAIN m

\* ------------------------------------------------------------ pure helpers
\* `${subId}-${linkFile}`
cacheKey(sub, link) == <<sub, link>>

\* `subs/${subId}.srt`: the prefix and the parts of the name
subKey(sub) == <<"subs", sub \o <<"srt">>>>

RECURSIVE dropFirst(_, _)
\* name.replace('.' + part, ''): the first such part after the first is dropped
dropFirst(parts, part) ==
  IF Len(parts) < 2 THEN parts
  ELSE IF parts[2] = part THEN <<parts[1]>> \o Tail(Tail(parts))
  ELSE <<parts[1]>> \o dropFirst(Tail(parts), part)

\* obj.Key.replace('subs/', '').replace('.srt', '') (line 39, 1258)
idOfKey(key) == dropFirst(key[2], "srt")

\* Date.now() - cached.time < SUBTITLE_CACHE_TTL
cacheFresh(entry) == entry.age < SUBTITLE_CACHE_TTL

NoName == FileName("", "")

\* ensureUtf8(buffer): BOM first, then the validity heuristic, then CP1250
ensureUtf8(buffer) ==
  IF buffer.bom = "utf8" THEN buffer.u8
  ELSE IF buffer.bom = "utf16le" THEN buffer.u16
  ELSE IF buffer.valid THEN buffer.u8
  ELSE buffer.cp

\* filename.replace(/\.srt$/i, '.vtt')
vttFilename(filename) ==
  IF filename.ext \in {"srt", "SRT"} THEN FileName(filename.base, "vtt") ELSE filename

\* sendSub(content, filename): the response of the serving context
sendSub(content, filename, isOmni) ==
  IF isOmni
    THEN [status |-> 200, kind |-> "sub", body |-> <<"WEBVTT", content>>,
          filename |-> vttFilename(filename)]
    ELSE [status |-> 200, kind |-> "sub", body |-> <<content>>,
          filename |-> filename]

\* the fixed limit-reached cue, as VTT for Omni and as SRT otherwise
limitMsg(isOmni) ==
  [status |-> 200, kind |-> "limit",
   body |-> IF isOmni THEN <<"WEBVTT", "limit">> ELSE <<"limit">>,
   filename |-> NoName]

errorResponse(status, text) ==
  [status |-> status, kind |-> "error", body |-> <<text>>, filename |-> NoName]

NoResp == [status |-> 0, kind |-> "none", body |-> <<>>, filename |-> NoName]

\* ------------------------------------------------ archives of the origin
Entry(name, isDir, data) == [entryName |-> name, isDirectory |-> isDir, data |-> data]

Archives ==
  { <<Entry(FileName("film", "ass"), FALSE, Buf("none", TRUE, "c2", "x", "x")),
      Entry(FileName("film", "srt"), FALSE, Buf("none", FALSE, "x", "x", "c1"))>>,
    <<Entry(FileName("readme", "nfo"), FALSE, Buf("none", TRUE, "x", "x", "x"))>> }

SubtitleExts == {"srt", "sub", "txt", "smi", "ssa", "ass"}

RECURSIVE filesOfClass(_, _)
\* the files of s that are (srt = TRUE) or are not .srt files, in order
filesOfClass(s, srt) ==
  IF s = <<>> THEN <<>>
  ELSE IF (s[1].filename.ext = "srt") = srt
    THEN <<s[1]>> \o filesOfClass(Tail(s), srt)
    ELSE filesOfClass(Tail(s), srt)

RECURSIVE zipEntries(_)
\* the loop over zip.getEntries(): subtitle extensions, no directories
zipEntries(a) ==
  IF a = <<>> THEN <<>>
  ELSE (IF a[1].entryName.ext \in SubtitleExts /\ ~a[1].isDirectory
          THEN <<[filename |-> a[1].entryName, content |-> a[1].data]>>
          ELSE <<>>) \o zipEntries(Tail(a))

\* _extractSubtitles(zipBuffer) of a readable archive: the stable sort puts
\* the .srt files first
extractSubtitles(a) ==
  filesOfClass(zipEntries(a), TRUE) \o filesOfClass(zipEntries(a), FALSE)

\* ------------------------------------------------------------------ state
\* The requests that arrive, in their order of arrival: all ask for the same
\* subtitle but the second, which asks for any of the three and comes from
\* Omni; or all ask for the same and the first has an undecodable config.
Plans ==
  {[r \in Reqs |-> [sub |-> IF r = 2 THEN k[1] ELSE <<"101">>,
                    link |-> IF r = 2 THEN k[2] ELSE "film-101",
                    cfg |-> Config("u", r = 2)]] : k \in Requested}
  \cup {[r \in Reqs |-> [sub |-> <<"101">>, link |-> "film-101",
                         cfg |-> IF r = 1 THEN BadConfig ELSE Config("u", r = 2)]]}

InSeq(s) == {s[i] : i \in DOMAIN s}

Min(a, b) == IF a < b THEN a ELSE b

\* r2Get's null
NoR2 == [hit |-> FALSE, content |-> "", filename |-> NoName]

\* the locals of a request: r2Cached, and what is left of the countdown
NoLoc == [r2Cached |-> NoR2, wait |-> 0]

\* from: the tier the response came from; waitedOn: the lock promise the
\* request awaited (0: none); fetched: it called downloadSubtitle; r2Had:
\* the bucket held the id's object when r2Get was answered; asked: r2Get
\* sent a GetObject; with: the requests being handled when it arrived;
\* cold: neither tier held anything for its id when it arrived; login: how
\* the handler's last call of login() ended ("true", "false", "thrown");
\* captcha: the download-resolution page it received held the CAPTCHA marker;
\* expired: it deleted the expired entry of its key when it arrived
NoHist == [from |-> "none", waitedOn |-> 0, fetched |-> FALSE, r2Had |-> FALSE,
           asked |-> FALSE, with |-> {}, cold |-> FALSE, login |-> "none",
           captcha |-> FALSE, expired |-> FALSE]

\* new TitulkyClient(username, password): lastLoginTime = 0 is the epoch,
\* more than the freshness window ago
newClient(username) ==
  [username |-> username, loggedIn |-> FALSE, loginAge |-> LOGIN_FRESH,
   loginPromise |-> FALSE, lwait |-> <<>>]

\* a cached subtitle object of the bucket, as r2Put writes it
subObject(content, filename) ==
  [content |-> content, meta |-> [m \in {"filename"} |-> filename]]

\* what the bucket may hold when the process starts: nothing, or a cached
\* subtitle restored without metadata and a custom subtitle
CustomKey == <<"custom", <<"tt1/a", "srt">>>>

InitBuckets ==
  { EmptyMap,
    [k \in {subKey(<<"101">>), CustomKey} |->
       IF k = CustomKey THEN [content |-> "cc", meta |-> [m \in {"uploader"} |-> "u"]]
       ELSE [content |-> "c0", meta |-> EmptyMap]] }

\* no custom-delete or restore request yet; n counts those handled
NoAdm == [pc |-> "idle", user |-> "", key |-> CustomKey, todo |-> <<>>,
          status |-> 0, success |-> FALSE, n |-> 0]

\* the server after start-up, before any request
ServerInit ==
  /\ mq = <<>>
  /\ pc = [r \in Reqs |-> "idle"]
  /\ rq \in Plans
  /\ resp = [r \in Reqs |-> NoResp]
  /\ subtitleCache = EmptyMap
  /\ downloadLocks = EmptyMap
  /\ resolved = {}
  /\ waiters = [r \in Reqs |-> <<>>]
  /\ s3 \in BOOLEAN
  /\ r2 \in (IF s3 THEN InitBuckets ELSE {EmptyMap})
  /\ r2CachedIds = {}
  /\ puts = EmptyMap
  /\ clientCache = EmptyMap
  /\ clients = EmptyMap
  /\ cl = [r \in Reqs |-> 0]
  /\ loc = [r \in Reqs |-> NoLoc]
  /\ listTodo = s3
  /\ hist = [r \in Reqs |-> NoHist]
  /\ adm = NoAdm

\* no function of the search handler or of the converters is being evaluated
NoCall == [op |-> "none"]

Init == ServerInit /\ call = NoCall

\* an external event is delivered only when no microtask is queued
Macro == mq = <<>>

\* the continuation of request r at label p is the next microtask
Micro(r, p) == mq # <<>> /\ Head(mq) = r /\ pc[r] = p

\* ------------------------------------------------- pieces of the handler
\* subtitleCache.has(cacheKey) && Date.now() - cached.time < TTL (line 748-750)
memoryHit(cache, key) == Has(cache, key) /\ cacheFresh(cache[key])

\* line 748-755 when the entry is not served: an expired entry is deleted
afterMemoryMiss(cache, key) == IF Has(cache, key) THEN MapDel(cache, key) ELSE cache

\* a handler that goes on to the download section whatever the cache holds
afterWaitNever(cache, key) == FALSE

\* the after-wait check of line 771: presence only
afterWaitHit(cache, key) == Has(cache, key)

\* const utf8Content = ensureUtf8(files[0].content) (line 804-805)
utf8Content(files) == ensureUtf8(files[1].content)

\* the entry the fetch path writes (line 807-811), time: Date.now()
fetchedEntry(files) ==
  [content |-> utf8Content(files), filename |-> files[1].filename, age |-> 0]

\* a fetch that writes no entry
cacheAfterFetchUnwritten(cache, key, files) == cache

\* subtitleCache.set(cacheKey, {...}) of the fetch path (line 807-811)
cacheAfterFetch(cache, key, files) == MapSet(cache, key, fetchedEntry(files))

\* a handler that stores the limit message under the key
cacheAfterNoFilesStored(cache, key) ==
  MapSet(cache, key, [content |-> "limit", filename |-> NoName, age |-> 0])

\* line 793-802: the no-files path sets no entry
cacheAfterNoFiles(cache, key) == cache

\* a put of the first file's bytes read as UTF-8, without ensureUtf8
putArgsRaw(sub, files) ==
  [sub |-> sub, content |-> files[1].content.u8, filename |-> files[1].filename]

\* what r2Put is called with (line 814)
putArgs(sub, files) ==
  [sub |-> sub, content |-> utf8Content(files), filename |-> files[1].filename]

\* the entry the durable-store hit writes (line 760), time: Date.now()
r2Entry(r2Cached) ==
  [content |-> r2Cached.content, filename |-> r2Cached.filename, age |-> 0]

\* r2Get (line 54-74): null on NoSuchKey and on any other error, else the
\* object's content and the filename of its metadata (`${subId}.srt` when
\* the metadata has none)
r2Get(bucket, sub, err) ==
  IF ~err /\ Has(bucket, subKey(sub))
    THEN [hit |-> TRUE,
          content |-> bucket[subKey(sub)].content,
          filename |-> IF Has(bucket[subKey(sub)].meta, "filename")
                         THEN bucket[subKey(sub)].meta["filename"]
                         ELSE FileName(sub[1], "srt")]
    ELSE NoR2

\* a handler that ignores what r2Get returned
r2HitNever(r2Cached) == FALSE

\* if (r2Cached) of line 759
r2Hit(r2Cached) == r2Cached.hit

\* a freshness check that looks at the flag alone
loginFreshByFlag(client) == client.loggedIn

\* login()'s first line: flagged authenticated and younger than 30 minutes
loginFresh(client) == client.loggedIn /\ client.loginAge < LOGIN_FRESH

\* a login() that never joins a pending attempt
loginPendingNever(client) == FALSE

\* login()'s second line: if (this.loginPromise)
loginPending(client) == client.loginPromise

\* what login() completes with after _doLogin's request: true, false, or
\* the request's exception
loginResult(outcome) ==
  IF outcome = "ok" THEN "true" ELSE IF outcome = "bad" THEN "false" ELSE "thrown"

\* _doLogin after the response: "BadLogin" in the body clears the flag, any
\* other body sets it and lastLoginTime = Date.now(); a thrown request
\* changes neither
doLoginResult(client, outcome) ==
  IF outcome = "bad" THEN [client EXCEPT !.loggedIn = FALSE]
  ELSE IF outcome = "ok" THEN [client EXCEPT !.loggedIn = TRUE, !.loginAge = 0]
  ELSE client

\* line 38-41: the ids of the keys listed under the prefix subs/
listedIds(bucket) == {idOfKey(k) : k \in {x \in DOMAIN bucket : x[1] = "subs"}}

\* an index that takes the id before the put is known to have succeeded
indexAfterPutAlways(ids, sub, ok) == ids \cup {sub}

\* r2CachedIds after r2Put's request has ended (line 86 is after the await)
indexAfterPut(ids, sub, ok) == IF ok THEN ids \cup {sub} ELSE ids

\* one lock for all ids
lockIdShared(sub) == <<"0">>

\* the key of a download lock: the subtitle id (line 767, 769, 781)
lockId(sub) == sub

\* downloadLocks.delete(subId) of the three release paths (785, 795, 817)
releaseLock(locks, sub) == MapDel(locks, sub)

\* resolveLock() wakes the requests awaiting the promise, in order
lockWoken(r) == waiters[r]

\* a catch block that forgets the lock
catchLocksKept(locks, sub) == locks

\* the catch block (line 823-826): the entry is deleted ...
catchLocks(locks, sub) == IF Has(locks, sub) THEN MapDel(locks, sub) ELSE locks

\* ... and resolveLock, local to the try block, is not called: nobody wakes
catchWoken(r) == <<>>

\* the pages idown.php may answer with: the CAPTCHA marker, a countdown,
\* the download anchor
Pages ==
  {[captcha |-> TRUE, wait |-> 1, link |-> TRUE],
   [captcha |-> FALSE, wait |-> 1, link |-> FALSE]}
  \cup {[captcha |-> FALSE, wait |-> w, link |-> TRUE] : w \in 0..MaxWait}

\* the requests whose handler has started and has not ended
InHandler == {x \in Reqs : pc[x] \notin {"idle", "done"}}

\* neither tier holds anything for the id
Cold(sub) ==
  /\ \A k \in DOMAIN subtitleCache : k[1] # sub
  /\ ~Has(r2, subKey(sub))

\* the handler of r has ended: its locals are gone
EndHist(r, from) ==
  [hist EXCEPT ![r].from = from, ![r].r2Had = FALSE, ![r].login = "none"]

\* ------------------------------------------- ends of the /sub/ handler
\* res.send(): the handler of r ends
Respond(r, response, from) ==
  /\ resp' = [resp EXCEPT ![r] = response]
  /\ pc' = [pc EXCEPT ![r] = "done"]
  /\ hist' = EndHist(r, from)
  /\ loc' = [loc EXCEPT ![r] = NoLoc]
  /\ cl' = [cl EXCEPT ![r] = 0]

\* The request leaves the download section on one of the three release
\* paths (line 785-787, 795-801, 817-820): the lock entry is deleted,
\* resolveLock() queues the waiters, the response is sent; h is the history
\* after it.
ReleaseNoting(r, q, response, h) ==
  /\ downloadLocks' = releaseLock(downloadLocks, lockId(rq[r].sub))
  /\ resolved' = resolved \cup {r}
  /\ mq' = q \o lockWoken(r)
  /\ waiters' = [waiters EXCEPT ![r] = <<>>]
  /\ pc' = [x \in Reqs |-> IF x = r THEN "done"
                            ELSE IF x \in InSeq(lockWoken(r)) THEN "lock_ret"
                            ELSE pc[x]]
  /\ resp' = [resp EXCEPT ![r] = response]
  /\ hist' = h
  /\ loc' = [loc EXCEPT ![r] = NoLoc]
  /\ cl' = [cl EXCEPT ![r] = 0]

Release(r, q, response, from) == ReleaseNoting(r, q, response, EndHist(r, from))

\* The catch block of line 821-829.
Catch(r, q) ==
  /\ downloadLocks' = catchLocks(downloadLocks, lockId(rq[r].sub))
  /\ mq' = q \o catchWoken(r)
  /\ waiters' = [waiters EXCEPT ![r] = IF catchWoken(r) = <<>> THEN @ ELSE <<>>]
  /\ pc' = [x \in Reqs |-> IF x = r THEN "done"
                            ELSE IF x \in InSeq(catchWoken(r)) THEN "lock_ret"
                            ELSE pc[x]]
  /\ resp' = [resp EXCEPT ![r] = errorResponse(500, "Download failed")]
  /\ hist' = EndHist(r, "error")
  /\ loc' = [loc EXCEPT ![r] = NoLoc]
  /\ cl' = [cl EXCEPT ![r] = 0]
  /\ UNCHANGED resolved

\* line 793-802: no usable files
NoFiles(r, q) == Release(r, q, limitMsg(rq[r].cfg.omni), "limit")

\* line 793-802 when downloadSubtitle returned null on the page it received
NoFilesOnPage(r, q, page) ==
  ReleaseNoting(r, q, limitMsg(rq[r].cfg.omni),
                [EndHist(r, "limit") EXCEPT ![r].captcha = page.captcha])

\* a client that does not look for the CAPTCHA marker
captchaFoundNever(page) == FALSE

\* titulkyClient.js line 241: the page holds captcha/captcha.php
captchaFound(page) == page.captcha

\* line 778-783 up to the first suspension: the lock is created, getClient
\* (line 262-274) returns the cached client when it is flagged logged in,
\* and otherwise makes a new client and logs it in.
Acquire(r, q) ==
  LET u == rq[r].cfg.username
      cached == Has(clientCache, u) /\ clients[clientCache[u]].loggedIn
  IN /\ downloadLocks' = MapSet(downloadLocks, lockId(rq[r].sub), r)
     /\ IF cached
          THEN /\ cl' = [cl EXCEPT ![r] = clientCache[u]]
               /\ pc' = [pc EXCEPT ![r] = "gc_ret"]
               /\ mq' = Append(q, r)
               /\ UNCHANGED clients
          ELSE IF u = ""
          THEN /\ clients' = MapSet(clients, r, newClient(u))
               /\ cl' = [cl EXCEPT ![r] = 0]
               /\ pc' = [pc EXCEPT ![r] = "gc_ret"]
               /\ mq' = Append(q, r)
          ELSE /\ clients' = MapSet(clients, r, [newClient(u) EXCEPT !.loginPromise = TRUE])
               /\ cl' = [cl EXCEPT ![r] = r]
               /\ pc' = [pc EXCEPT ![r] = "gc_login"]
               /\ mq' = q

\* line 766-781: wait for the lock of the id when there is one, else go on
LockSection(r, q) ==
  IF Has(downloadLocks, lockId(rq[r].sub))
    THEN LET p == downloadLocks[lockId(rq[r].sub)] IN
         /\ hist' = [hist EXCEPT ![r].waitedOn = p]
         /\ IF p \in resolved
              THEN /\ pc' = [pc EXCEPT ![r] = "lock_ret"]
                   /\ mq' = Append(q, r)
                   /\ UNCHANGED waiters
              ELSE /\ pc' = [pc EXCEPT ![r] = "lock_wait"]
                   /\ mq' = q
                   /\ waiters' = [waiters EXCEPT ![p] = Append(@, r)]
         /\ UNCHANGED <<downloadLocks, clients, cl>>
    ELSE /\ Acquire(r, q)
         /\ UNCHANGED <<hist, waiters>>

\* ------------------------------------------------------------- actions
\* GET /sub/:config/:subId/:linkFile arrives: line 725-758
Arrive(r) ==
  /\ Macro
  /\ pc[r] = "idle"
  /\ \A x \in Reqs : x < r => pc[x] # "idle"
  /\ LET cfg == rq[r].cfg
         key == cacheKey(rq[r].sub, rq[r].link) IN
     IF ~cfg.ok
       THEN /\ Respond(r, errorResponse(400, "Invalid config"), "error")
            /\ UNCHANGED <<subtitleCache, mq>>
     ELSE IF memoryHit(subtitleCache, key)
       THEN /\ Respond(r, sendSub(subtitleCache[key].content,
                                  subtitleCache[key].filename, cfg.omni), "mem")
            /\ UNCHANGED <<subtitleCache, mq>>
       ELSE /\ subtitleCache' = afterMemoryMiss(subtitleCache, key)
            /\ IF s3
                 THEN pc' = [pc EXCEPT ![r] = "r2_get"] /\ UNCHANGED mq
                 ELSE pc' = [pc EXCEPT ![r] = "r2_ret"] /\ mq' = Append(mq, r)
            /\ hist' = [hist EXCEPT ![r].asked = s3,
                                    ![r].with = InHandler,
                                    ![r].cold = Cold(rq[r].sub),
                                    ![r].expired = Has(subtitleCache, key)]
            /\ UNCHANGED <<resp, loc, cl>>
  /\ UNCHANGED <<adm, rq, downloadLocks, resolved, waiters, r2, r2CachedIds, puts,
                 clientCache, clients, s3, listTodo>>
  /\ UNCHANGED call

\* the bucket answers r2Get's GetObject: line 57-73
R2GetResponse(r, err) ==
  /\ Macro
  /\ pc[r] = "r2_get"
  /\ loc' = [loc EXCEPT ![r].r2Cached = r2Get(r2, rq[r].sub, err)]
  /\ hist' = [hist EXCEPT ![r].r2Had = Has(r2, subKey(rq[r].sub))]
  /\ pc' = [pc EXCEPT ![r] = "r2_ret"]
  /\ mq' = Append(mq, r)
  /\ UNCHANGED <<adm, rq, resp, subtitleCache, downloadLocks, resolved, waiters,
                 r2, r2CachedIds, puts, clientCache, clients, cl, s3, listTodo>>
  /\ UNCHANGED call

\* line 759-781: after r2Get
R2Ret(r) ==
  /\ Micro(r, "r2_ret")
  /\ LET q == Tail(mq)
         key == cacheKey(rq[r].sub, rq[r].link)
         r2Cached == loc[r].r2Cached
     IN IF r2Hit(r2Cached)
          THEN /\ subtitleCache' = MapSet(subtitleCache, key, r2Entry(r2Cached))
               /\ Respond(r, sendSub(r2Cached.content, r2Cached.filename,
                                     rq[r].cfg.omni), "r2")
               /\ mq' = q
               /\ UNCHANGED <<downloadLocks, waiters, clients>>
          ELSE /\ LockSection(r, q)
               /\ UNCHANGED <<subtitleCache, resp, loc>>
  /\ UNCHANGED <<adm, rq, resolved, r2, r2CachedIds, puts, clientCache, s3, listTodo>>
  /\ UNCHANGED call

\* line 770-781: woken by resolveLock()
LockRet(r) ==
  /\ Micro(r, "lock_ret")
  /\ LET q == Tail(mq)
         key == cacheKey(rq[r].sub, rq[r].link)
     IN IF afterWaitHit(subtitleCache, key)
          THEN /\ Respond(r, sendSub(subtitleCache[key].content,
                                     subtitleCache[key].filename, rq[r].cfg.omni),
                          "wait")
               /\ mq' = q
               /\ UNCHANGED <<downloadLocks, clients>>
          ELSE /\ Acquire(r, q)
               /\ UNCHANGED <<resp, hist, loc>>
  /\ UNCHANGED <<adm, rq, subtitleCache, resolved, waiters, r2, r2CachedIds, puts,
                 clientCache, s3, listTodo>>
  /\ UNCHANGED call

\* getClient's login request is answered: titulkyClient.js line 71-85, 62,
\* server.js line 269-274
GcLoginResponse(r, outcome) ==
  /\ Macro
  /\ pc[r] = "gc_login"
  /\ clients' = [clients EXCEPT ![r] =
                   [doLoginResult(@, outcome) EXCEPT !.loginPromise = FALSE]]
  /\ IF outcome = "throw"
       THEN /\ Catch(r, mq)
            /\ UNCHANGED clientCache
       ELSE /\ clientCache' = IF outcome = "ok"
                                THEN MapSet(clientCache, rq[r].cfg.username, r)
                                ELSE clientCache
            /\ cl' = [cl EXCEPT ![r] = IF outcome = "ok" THEN r ELSE 0]
            /\ pc' = [pc EXCEPT ![r] = "gc_ret"]
            /\ mq' = Append(mq, r)
            /\ hist' = [hist EXCEPT ![r].login = loginResult(outcome)]
            /\ UNCHANGED <<downloadLocks, resolved, waiters, resp, loc>>
  /\ UNCHANGED <<adm, rq, subtitleCache, r2, r2CachedIds, puts, s3, listTodo>>
  /\ UNCHANGED call

\* line 783-791: getClient has returned; downloadSubtitle starts with login()
\* (titulkyClient.js line 229, 58-66)
GcRet(r) ==
  /\ Micro(r, "gc_ret")
  /\ LET q == Tail(mq)
         c == cl[r]
     IN IF c = 0
          THEN /\ Release(r, q, errorResponse(500, "Login failed"), "error")
               /\ UNCHANGED clients
          ELSE /\ IF loginFresh(clients[c])
                    THEN /\ pc' = [pc EXCEPT ![r] = "dl_login_ret"]
                         /\ mq' = Append(q, r)
                         /\ hist' = [hist EXCEPT ![r].fetched = TRUE,
                                                 ![r].login = "true"]
                         /\ UNCHANGED clients
                    ELSE IF loginPending(clients[c])
                    THEN /\ pc' = [pc EXCEPT ![r] = "dl_login_wait"]
                         /\ mq' = q
                         /\ hist' = [hist EXCEPT ![r].fetched = TRUE,
                                                 ![r].login = "none"]
                         /\ clients' = [clients EXCEPT ![c].lwait = Append(@, r)]
                    ELSE IF clients[c].username = ""
                    THEN /\ pc' = [pc EXCEPT ![r] = "dl_login_ret"]
                         /\ mq' = Append(q, r)
                         /\ hist' = [hist EXCEPT ![r].fetched = TRUE,
                                                 ![r].login = "false"]
                         /\ UNCHANGED clients
                    ELSE /\ pc' = [pc EXCEPT ![r] = "dl_login"]
                         /\ mq' = q
                         /\ hist' = [hist EXCEPT ![r].fetched = TRUE,
                                                 ![r].login = "none"]
                         /\ clients' = [clients EXCEPT ![c].loginPromise = TRUE]
               /\ UNCHANGED <<downloadLocks, resolved, waiters, resp, loc, cl>>
  /\ UNCHANGED <<adm, rq, subtitleCache, r2, r2CachedIds, puts, clientCache, s3,
                 listTodo>>
  /\ UNCHANGED call

\* the re-login request of downloadSubtitle's login() is answered; every
\* caller awaiting the same loginPromise continues with its result
DlLoginResponse(r, outcome) ==
  /\ Macro
  /\ pc[r] = "dl_login"
  /\ LET c == cl[r]
         w == clients[c].lwait
         next == IF outcome = "throw" THEN "dl_login_thrown" ELSE "dl_login_ret"
     IN /\ clients' = [clients EXCEPT ![c] =
                         [doLoginResult(@, outcome)
                            EXCEPT !.loginPromise = FALSE, !.lwait = <<>>]]
        /\ pc' = [x \in Reqs |-> IF x = r \/ x \in InSeq(w) THEN next ELSE pc[x]]
        /\ mq' = <<r>> \o w
        /\ hist' = [x \in Reqs |->
                      IF x = r \/ x \in InSeq(w)
                        THEN [hist[x] EXCEPT !.login = loginResult(outcome)]
                        ELSE hist[x]]
  /\ UNCHANGED <<adm, rq, resp, subtitleCache, downloadLocks, resolved, waiters,
                 r2, r2CachedIds, puts, clientCache, cl, loc, s3, listTodo>>
  /\ UNCHANGED call

\* titulkyClient.js line 229-237: login() has returned (its result is not
\* looked at); the download-resolution page is requested
DlLoginRet(r) ==
  /\ Micro(r, "dl_login_ret")
  /\ pc' = [pc EXCEPT ![r] = "dl_page"]
  /\ mq' = Tail(mq)
  /\ UNCHANGED <<adm, rq, resp, subtitleCache, downloadLocks, resolved, waiters,
                 r2, r2CachedIds, puts, clientCache, clients, cl, loc, s3,
                 listTodo, hist>>
  /\ UNCHANGED call

\* login() has thrown: the handler's catch block runs
DlLoginThrown(r) ==
  /\ Micro(r, "dl_login_thrown")
  /\ Catch(r, Tail(mq))
  /\ UNCHANGED <<adm, rq, subtitleCache, r2, r2CachedIds, puts, clientCache,
                 clients, s3, listTodo>>
  /\ UNCHANGED call

\* titulkyClient.js line 237-264: the download-resolution page is answered
\* (page), or the request fails (thrown)
PageResponse(r, thrown, page) ==
  /\ Macro
  /\ pc[r] = "dl_page"
  /\ IF thrown
       THEN Catch(r, mq)
     ELSE IF captchaFound(page) \/ ~page.link
       THEN NoFilesOnPage(r, mq, page)
     ELSE /\ pc' = [pc EXCEPT ![r] = IF page.wait > 0 THEN "dl_wait" ELSE "dl_zip"]
          /\ loc' = [loc EXCEPT ![r].wait = page.wait]
          /\ hist' = [hist EXCEPT ![r].captcha = page.captcha]
          /\ UNCHANGED <<mq, resp, downloadLocks, resolved, waiters, cl>>
  /\ UNCHANGED <<adm, rq, subtitleCache, r2, r2CachedIds, puts, clientCache,
                 clients, s3, listTodo>>
  /\ UNCHANGED call

\* titulkyClient.js line 261-270: the countdown has elapsed
TimerFires(r) ==
  /\ Macro
  /\ pc[r] = "dl_wait"
  /\ loc[r].wait = 0
  /\ pc' = [pc EXCEPT ![r] = "dl_zip"]
  /\ UNCHANGED <<adm, mq, rq, resp, subtitleCache, downloadLocks, resolved,
                 waiters, r2, r2CachedIds, puts, clientCache, clients, cl, loc,
                 s3, listTodo, hist>>
  /\ UNCHANGED call

\* titulkyClient.js line 267-277 and server.js line 793-820: the archive
\* request is answered.  kind: "thrown", "small" (under 50 bytes), "corrupt"
\* (AdmZip throws, _extractSubtitles returns null) or "zip" with archive a.
ZipResponse(r, kind, a) ==
  /\ Macro
  /\ pc[r] = "dl_zip"
  /\ LET files == IF kind = "zip" THEN extractSubtitles(a) ELSE <<>>
         key == cacheKey(rq[r].sub, rq[r].link)
     IN IF kind = "thrown"
          THEN Catch(r, mq) /\ UNCHANGED <<subtitleCache, puts>>
        ELSE IF Len(files) = 0
          THEN /\ NoFiles(r, mq)
               /\ subtitleCache' = cacheAfterNoFiles(subtitleCache, key)
               /\ UNCHANGED puts
        ELSE /\ subtitleCache' = cacheAfterFetch(subtitleCache, key, files)
             /\ puts' = IF s3 THEN MapSet(puts, r, putArgs(rq[r].sub, files)) ELSE puts
             /\ Release(r, mq, sendSub(utf8Content(files), files[1].filename,
                                       rq[r].cfg.omni), "origin")
  /\ UNCHANGED <<adm, rq, r2, r2CachedIds, clientCache, clients, s3, listTodo>>
  /\ UNCHANGED call

\* r2Put's PutObject is answered: line 79-90
R2PutResponse(r, ok) ==
  /\ Macro
  /\ Has(puts, r)
  /\ r2' = IF ok THEN MapSet(r2, subKey(puts[r].sub),
                             subObject(puts[r].content, puts[r].filename))
           ELSE r2
  /\ r2CachedIds' = indexAfterPut(r2CachedIds, puts[r].sub, ok)
  /\ puts' = MapDel(puts, r)
  /\ UNCHANGED <<adm, mq, pc, rq, resp, subtitleCache, downloadLocks, resolved,
                 waiters, clientCache, clients, cl, loc, s3, listTodo, hist>>
  /\ UNCHANGED call

\* the startup listing (line 28-49) is answered ...
ListPage ==
  /\ Macro
  /\ listTodo
  /\ r2CachedIds' = r2CachedIds \cup listedIds(r2)
  /\ listTodo' = FALSE
  /\ UNCHANGED <<adm, mq, pc, rq, resp, subtitleCache, downloadLocks, resolved,
                 waiters, r2, puts, clientCache, clients, cl, loc, s3, hist>>
  /\ UNCHANGED call

\* ... or fails
ListError ==
  /\ Macro
  /\ listTodo
  /\ listTodo' = FALSE
  /\ UNCHANGED <<adm, mq, pc, rq, resp, subtitleCache, downloadLocks, resolved,
                 waiters, r2, r2CachedIds, puts, clientCache, clients, cl, loc, s3,
                 hist>>
  /\ UNCHANGED call

\* ------------------------------------------- custom-delete and restore
\* (username || '').toLowerCase() of the names that occur
Lower(name) ==
  IF name = "David32" THEN "david32" ELSE IF name = "V" THEN "v" ELSE name

\* the default of process.env.ADMIN_USERS, lower-cased (line 1101)
ADMIN_USERS == {"david32"}

isAdmin(username) == Lower(username) \in ADMIN_USERS

\* key.startsWith('custom/') (line 1114)
isCustomKey(key) == key[1] = "custom"

\* getRes.Metadata?.uploader || 'unknown' (line 1128)
uploaderOf(object) ==
  IF Has(object.meta, "uploader") THEN object.meta["uploader"] ELSE "unknown"

\* line 1130: neither an admin nor the uploader
deleteDenied(username, uploader) ==
  ~isAdmin(username) /\ Lower(uploader) # Lower(username)

\* the bucket after DeleteObject (line 1142)
deleteObject(bucket, key) == MapDel(bucket, key)

\* the index after a restored entry was put (line 1257-1260)
indexAfterRestore(ids, key) ==
  IF key[1] = "subs" /\ idOfKey(key) # <<>> THEN ids \cup {idOfKey(key)} ELSE ids

\* who sends custom-delete and restore requests
AdminConfigs ==
  {BadConfig, Config("u", FALSE), Config("V", FALSE), Config("David32", FALSE)}

\* the keys a custom-delete request may name
DeleteKeys == {CustomKey, subKey(<<"101">>)}

\* the entries of the uploaded backup that are neither directories nor
\* sidecars, each with the metadata of its sidecar
RestoreZip ==
  << [key |-> subKey(<<"102">>), content |-> "c0", meta |-> EmptyMap],
     [key |-> <<"subs", <<"101", "ass">>>>, content |-> "c2", meta |-> EmptyMap] >>

\* the custom-delete or restore handler ends
AdmEnd(status, success) ==
  adm' = [adm EXCEPT !.pc = "idle", !.status = status, !.success = success,
                     !.todo = <<>>, !.n = @ + 1]

\* POST /:config/custom-delete arrives: line 1109-1126
CustomDeleteArrive(cfg, key) ==
  /\ Macro
  /\ adm.pc = "idle" /\ adm.n < MaxAdmin
  /\ IF ~cfg.ok \/ cfg.username = "" THEN AdmEnd(401, FALSE)
     ELSE IF ~isCustomKey(key) THEN AdmEnd(400, FALSE)
     ELSE IF ~s3 THEN AdmEnd(500, FALSE)
     ELSE adm' = [adm EXCEPT !.pc = "cd_get", !.user = cfg.username, !.key = key]
  /\ UNCHANGED <<mq, pc, rq, resp, subtitleCache, downloadLocks, resolved,
                 waiters, r2, r2CachedIds, puts, clientCache, clients, cl, loc,
                 s3, listTodo, hist>>
  /\ UNCHANGED call

\* the permission check's GetObject is answered: line 1127-1141.  A missing
\* object ends the request; any other error falls through to the delete.
CustomDeleteGetResponse(err) ==
  /\ Macro
  /\ adm.pc = "cd_get"
  /\ IF err THEN adm' = [adm EXCEPT !.pc = "cd_del"]
     ELSE IF ~Has(r2, adm.key) THEN AdmEnd(200, TRUE)
     ELSE IF deleteDenied(adm.user, uploaderOf(r2[adm.key])) THEN AdmEnd(403, FALSE)
     ELSE adm' = [adm EXCEPT !.pc = "cd_del"]
  /\ UNCHANGED <<mq, pc, rq, resp, subtitleCache, downloadLocks, resolved,
                 waiters, r2, r2CachedIds, puts, clientCache, clients, cl, loc,
                 s3, listTodo, hist>>
  /\ UNCHANGED call

\* DeleteObject is answered: line 1142-1152
CustomDeleteDelResponse(ok) ==
  /\ Macro
  /\ adm.pc = "cd_del"
  /\ r2' = IF ok THEN deleteObject(r2, adm.key) ELSE r2
  /\ AdmEnd(200, ok)
  /\ UNCHANGED <<mq, pc, rq, resp, subtitleCache, downloadLocks, resolved,
                 waiters, r2CachedIds, puts, clientCache, clients, cl, loc,
                 s3, listTodo, hist>>
  /\ UNCHANGED call

\* POST /:config/admin/restore arrives with the backup: line 1215-1250
RestoreArrive(cfg) ==
  /\ Macro
  /\ adm.pc = "idle" /\ adm.n < MaxAdmin
  /\ IF ~cfg.ok \/ ~isAdmin(cfg.username) THEN AdmEnd(403, FALSE)
     ELSE IF ~s3 THEN AdmEnd(500, FALSE)
     ELSE adm' = [adm EXCEPT !.pc = "rs_put", !.user = cfg.username,
                             !.todo = RestoreZip]
  /\ UNCHANGED <<mq, pc, rq, resp, subtitleCache, downloadLocks, resolved,
                 waiters, r2, r2CachedIds, puts, clientCache, clients, cl, loc,
                 s3, listTodo, hist>>
  /\ UNCHANGED call

\* the PutObject of the entry being restored is answered: line 1244-1269
RestorePutResponse(ok) ==
  /\ Macro
  /\ adm.pc = "rs_put"
  /\ LET e == Head(adm.todo) IN
     IF ok
       THEN /\ r2' = MapSet(r2, e.key, [content |-> e.content, meta |-> e.meta])
            /\ r2CachedIds' = indexAfterRestore(r2CachedIds, e.key)
            /\ IF Tail(adm.todo) = <<>> THEN AdmEnd(200, TRUE)
               ELSE adm' = [adm EXCEPT !.todo = Tail(@)]
       ELSE /\ AdmEnd(200, FALSE)
            /\ UNCHANGED <<r2, r2CachedIds>>
  /\ UNCHANGED <<mq, pc, rq, resp, subtitleCache, downloadLocks, resolved,
                 waiters, puts, clientCache, clients, cl, loc, s3, listTodo, hist>>
  /\ UNCHANGED call

\* requests whose handler has a network call in flight
NetStates == {"r2_get", "gc_login", "dl_login", "dl_page", "dl_zip"}

\* A unit of time passes.  Every network call ends within its timeout (30 s
\* for the origin), far less than a unit, and a timer fires when it is due:
\* a unit passes only while no call is in flight and no timer is due.
Tick ==
  /\ Macro
  /\ \A r \in Reqs : pc[r] \notin NetStates
  /\ \A r \in Reqs : pc[r] = "dl_wait" => loc[r].wait > 0
  /\ puts = EmptyMap
  /\ ~listTodo
  /\ adm.pc = "idle"
  /\ subtitleCache' = [k \in DOMAIN subtitleCache |->
        [subtitleCache[k] EXCEPT !.age = Min(@ + 1, SUBTITLE_CACHE_TTL)]]
  /\ clients' = [c \in DOMAIN clients |->
        [clients[c] EXCEPT !.loginAge = Min(@ + 1, LOGIN_FRESH)]]
  /\ loc' = [r \in Reqs |->
        IF pc[r] = "dl_wait" THEN [loc[r] EXCEPT !.wait = @ - 1] ELSE loc[r]]
  /\ UNCHANGED <<adm, mq, pc, rq, resp, downloadLocks, resolved, waiters, r2,
                 r2CachedIds, puts, clientCache, cl, s3, listTodo, hist>>
  /\ UNCHANGED call

\* every step of the /sub/ handler after the arrival, the startup listing,
\* the pending puts and the passing of time
Serve ==
  \/ \E r \in Reqs, err \in BOOLEAN : R2GetResponse(r, err)
  \/ \E r \in Reqs : R2Ret(r)
  \/ \E r \in Reqs : LockRet(r)
  \/ \E r \in Reqs, outcome \in {"ok", "bad", "throw"} : GcLoginResponse(r, outcome)
  \/ \E r \in Reqs : GcRet(r)
  \/ \E r \in Reqs, outcome \in {"ok", "bad", "throw"} : DlLoginResponse(r, outcome)
  \/ \E r \in Reqs : DlLoginRet(r)
  \/ \E r \in Reqs : DlLoginThrown(r)
  \/ \E r \in Reqs, thrown \in BOOLEAN, page \in Pages : PageResponse(r, thrown, page)
  \/ \E r \in Reqs : TimerFires(r)
  \/ \E r \in Reqs, kind \in {"thrown", "small", "corrupt", "zip"}, a \in Archives :
        ZipResponse(r, kind, a)
  \/ \E r \in Reqs, ok \in BOOLEAN : R2PutResponse(r, ok)
  \/ ListPage
  \/ ListError
  \/ Tick

\* the custom-delete and restore handlers
Admin ==
  \/ \E cfg \in AdminConfigs, key \in DeleteKeys : CustomDeleteArrive(cfg, key)
  \/ \E err \in BOOLEAN : CustomDeleteGetResponse(err)
  \/ \E ok \in BOOLEAN : CustomDeleteDelResponse(ok)
  \/ \E cfg \in AdminConfigs : RestoreArrive(cfg)
  \/ \E ok \in BOOLEAN : RestorePutResponse(ok)

\* the subtitle requests alone
Next ==
  \/ \E r \in Reqs : Arrive(r)
  \/ Serve

Spec == Init /\ [][Next]_vars

\* the first subtitle requests together with custom-delete and restore
AdminReqs == {r \in Reqs : r <= MaxAdminReq}

AdminNext ==
  \/ \E r \in AdminReqs : Arrive(r)
  \/ Serve
  \/ Admin

AdminSpec == Init /\ [][AdminNext]_vars

\* --------------------------------------------------- functions evaluated alone
\* The search cascade, the title filter, the scoring functions and the format
\* converters read and write no state of the server: each is evaluated on its
\* own, on inputs drawn from a bounded set, while the server is at rest.
serverVars == <<mq, pc, rq, resp, subtitleCache, downloadLocks, resolved,
                waiters, r2, r2CachedIds, puts, clientCache, clients, cl, loc,
                s3, listTodo, hist, adm>>

\* the server without a bucket, before any request
Quiet ==
  /\ ServerInit
  /\ ~s3
  /\ \A r \in Reqs : rq[r].cfg.ok /\ rq[r].link = "film-101"

\* ------------------------------------------- TitulkyClient.search (90-103)
\* a search string is its sequence of characters; "" and null are <<>>
MaxTitles == 3
Titles == {<<>>, <<"x">>, <<"u", "p">>, <<"i", "t">>}

\* the candidate lists handed to search()
TitleLists == UNION {[1..n -> Titles] : n \in 0..MaxTitles}

\* what the site lists for a query: _searchStandard's result when the request
\* is answered (line 105-115); the short strings would match rows, too
Sites ==
  {[t \in Titles |->
      IF t = <<"u", "p">> THEN up
      ELSE IF t = <<"i", "t">> THEN it
      ELSE IF t = <<"x">> THEN <<"x-1">> ELSE <<"any-1">>] :
    up \in {<<>>, <<"up-1", "up-2">>}, it \in {<<>>, <<"it-1">>}}

\* a loop that queries every candidate
skipTitleNever(title) == FALSE

\* if (!title || title.length < 2) continue (line 96)
skipTitle(title) == Len(title) < 2

\* the next candidate the loop of line 95 queries after position i, or 0
RECURSIVE nextQuery(_, _)
nextQuery(titles, i) ==
  IF i >= Len(titles) THEN 0
  ELSE IF skipTitle(titles[i + 1]) THEN nextQuery(titles, i + 1)
  ELSE i + 1

\* a loop that logs in again before each query
searchLoopLogin(c, i) ==
  LET j == nextQuery(c.titles, i) IN
  IF j = 0 THEN [c EXCEPT !.pc = "returned", !.i = 0, !.result = <<>>]
  ELSE [c EXCEPT !.pc = "query", !.i = j, !.sent = Append(@, c.titles[j]),
                 !.logins = @ + 1]

\* the loop from position i on: send the next query, or return [] (line 102)
searchLoop(c, i) ==
  LET j == nextQuery(c.titles, i) IN
  IF j = 0 THEN [c EXCEPT !.pc = "returned", !.i = 0, !.result = <<>>]
  ELSE [c EXCEPT !.pc = "query", !.i = j, !.sent = Append(@, c.titles[j])]

SearchInit ==
  /\ Quiet
  /\ \E titles \in TitleLists, site \in Sites :
       call = [op |-> "search", titles |-> titles, site |-> site, pc |-> "start",
               i |-> 0, sent |-> <<>>, result |-> <<>>, logins |-> 0]

\* search() is called: line 92-93 up to the call of login(); logins counts
\* the calls of login()
SearchStart ==
  /\ call.op = "search" /\ call.pc = "start"
  /\ call' = [call EXCEPT !.pc = "login", !.logins = @ + 1]
  /\ UNCHANGED serverVars

\* await this.login() (line 93) completes: its result is not looked at; an
\* exception of the login request ends search()
SearchLogin(outcome) ==
  /\ call.op = "search" /\ call.pc = "login"
  /\ call' = IF outcome = "throw" THEN [call EXCEPT !.pc = "thrown"]
             ELSE searchLoop(call, 0)
  /\ UNCHANGED serverVars

\* the site answers the query of candidate call.i (line 98-99)
SearchResponse(thrown) ==
  /\ call.op = "search" /\ call.pc = "query"
  /\ LET results == call.site[call.titles[call.i]] IN
     call' = IF thrown THEN [call EXCEPT !.pc = "thrown"]
             ELSE IF Len(results) > 0
               THEN [call EXCEPT !.pc = "returned", !.result = results]
             ELSE searchLoop(call, call.i)
  /\ UNCHANGED serverVars

SearchNext ==
  \/ SearchStart
  \/ \E outcome \in {"true", "false", "throw"} : SearchLogin(outcome)
  \/ \E thrown \in BOOLEAN : SearchResponse(thrown)

SearchSpec == SearchInit /\ [][SearchNext]_vars

\* ------------------------------------------------------- strings (JavaScript)
\* a string is its sequence of characters
UpperCase == <<"A", "B", "C", "D", "E", "F", "G", "H", "I", "J", "K", "L", "M",
               "N", "O", "P", "Q", "R", "S", "T", "U", "V", "W", "X", "Y", "Z">>
LowerCase == <<"a", "b", "c", "d", "e", "f", "g", "h", "i", "j", "k", "l", "m",
               "n", "o", "p", "q", "r", "s", "t", "u", "v", "w", "x", "y", "z">>
Digits == {"0", "1", "2", "3", "4", "5", "6", "7", "8", "9"}
\* \s, of the characters that occur
Whitespace == {" ", "\t", "\n", "\r"}

lowerChar(c) ==
  IF \E k \in DOMAIN UpperCase : UpperCase[k] = c
    THEN LowerCase[CHOOSE k \in DOMAIN UpperCase : UpperCase[k] = c]
    ELSE c

\* String.prototype.toLowerCase
toLowerCase(s) == [i \in DOMAIN s |-> lowerChar(s[i])]

\* s.slice(n)
slice(s, n) == SubSeq(s, n + 1, Len(s))

\* s.startsWith(p)
startsWith(s, p) == Len(p) <= Len(s) /\ SubSeq(s, 1, Len(p)) = p

\* s.includes(p)
includes(s, p) ==
  \E n \in 0..(Len(s) - Len(p)) : \A i \in 1..Len(p) : s[n + i] = p[i]

RECURSIVE trimStart(_)
trimStart(s) ==
  IF s # <<>> /\ Head(s) \in Whitespace THEN trimStart(Tail(s)) ELSE s

RECURSIVE trimEnd(_)
trimEnd(s) ==
  IF s # <<>> /\ s[Len(s)] \in Whitespace
    THEN trimEnd(SubSeq(s, 1, Len(s) - 1)) ELSE s

\* String.prototype.trim
trim(s) == trimEnd(trimStart(s))

\* the concatenation of a sequence of strings
RECURSIVE Flat(_)
Flat(ss) == IF ss = <<>> THEN <<>> ELSE Head(ss) \o Flat(Tail(ss))

\* ---------------------------------------- isExactTitleMatch (server.js 596-615)
\* [a-z0-9\s]
titleChar(c) ==
  \/ \E k \in DOMAIN LowerCase : LowerCase[k] = c
  \/ c \in Digits
  \/ c \in Whitespace

\* s.toLowerCase().replace(/[^a-z0-9\s]/g, '').trim() (line 600-601)
normalizeTitle(s) == trim(SelectSeq(toLowerCase(s), titleChar))

\* /^\d{4}/.test(after)
startsWithYear(after) ==
  Len(after) >= 4 /\ \A i \in 1..4 : after[i] \in Digits

\* /^(s\d|season|720|1080|2160|bluray|brrip|web|dvd|hdtv|x26)/i.test(after)
startsWithReleaseInfo(after) ==
  \/ Len(after) >= 2 /\ lowerChar(after[1]) = "s" /\ after[2] \in Digits
  \/ \E w \in {<<"s", "e", "a", "s", "o", "n">>, <<"7", "2", "0">>,
               <<"1", "0", "8", "0">>, <<"2", "1", "6", "0">>,
               <<"b", "l", "u", "r", "a", "y">>, <<"b", "r", "r", "i", "p">>,
               <<"w", "e", "b">>, <<"d", "v", "d">>, <<"h", "d", "t", "v">>,
               <<"x", "2", "6">>} :
       startsWith(toLowerCase(after), w)

\* a match that accepts every text starting with the movie name
titlePrefixMatch(movieName, subText) ==
  /\ movieName # <<>> /\ subText # <<>>
  /\ startsWith(normalizeTitle(subText), normalizeTitle(movieName))

isExactTitleMatch(movieName, subText) ==
  IF movieName = <<>> \/ subText = <<>> THEN FALSE
  ELSE
    LET movie == normalizeTitle(movieName)
        sub == normalizeTitle(subText)
    IN  IF sub = movie THEN TRUE
        ELSE IF startsWith(sub, movie)
          THEN LET after == trim(slice(sub, Len(movie)))
               IN  after = <<>> \/ startsWithYear(after) \/ startsWithReleaseInfo(after)
        ELSE FALSE

\* s.replace(/[._-]/g, ' ')
separatorsToSpaces(s) ==
  [i \in DOMAIN s |-> IF s[i] \in {".", "_", "-"} THEN " " ELSE s[i]]

\* s.replace(/[.!?]+$/, '')
RECURSIVE dropEndPunctuation(_)
dropEndPunctuation(s) ==
  IF s # <<>> /\ s[Len(s)] \in {".", "!", "?"}
    THEN dropEndPunctuation(SubSeq(s, 1, Len(s) - 1)) ELSE s

\* the title filter of the search handler (line 484-490)
filterMovieName(name) == trim(dropEndPunctuation(toLowerCase(name)))
filterSubTitle(sub) == trim(separatorsToSpaces(toLowerCase(sub.title)))
filterSubLink(sub) == separatorsToSpaces(toLowerCase(sub.linkFile))
titleFilter(name, sub) ==
  \/ isExactTitleMatch(filterMovieName(name), filterSubTitle(sub))
  \/ isExactTitleMatch(filterMovieName(name), filterSubLink(sub))

\* the strings the functions are evaluated on
IronMan == <<"i", "r", "o", "n", " ", "m", "a", "n">>
IronManCaps == <<"I", "r", "o", "n", " ", "M", "a", "n">>
Year2008 == <<" ", "2", "0", "0", "8">>
Part2 == <<" ", "2">>
BluRay == <<" ", "b", "l", "u", "r", "a", "y">>
MaxTokens == 3
Tokens == {IronMan, IronManCaps, Year2008, Part2, BluRay, <<"s", "3">>,
           <<"w", "e", "b">>, <<"!">>, <<" ">>}
Texts == {Flat(ts) : ts \in UNION {[1..n -> Tokens] : n \in 0..MaxTokens}}
Targets == {<<>>, IronMan, IronManCaps \o <<"!">>, <<" ", "I", "r", "o", "n">>}

\* search results: title and link slug (sub.title, sub.linkFile)
Subs ==
  [title : {<<>>, IronManCaps, IronManCaps \o Part2,
            <<"I", "r", "o", "n", ".", "M", "a", "n", ".", "2", "0", "0", "8">>},
   linkFile : {<<>>, <<"I", "r", "o", "n", "-", "M", "a", "n", "-", "2">>,
               <<"i", "r", "o", "n", "_", "m", "a", "n", "-", "1", "2", "3", "4">>,
               <<"H", "u", "l", "k", "-", "2", "0", "0", "8">>}]
Names == {<<>>, IronManCaps, IronManCaps \o <<"?", "!">>, <<"H", "u", "l", "k">>}

MatchInit ==
  /\ Quiet
  /\ \/ \E movieName \in Targets, subText \in Texts :
          call = [op |-> "isExactTitleMatch", movieName |-> movieName,
                  subText |-> subText, done |-> FALSE, result |-> FALSE]
     \/ \E name \in Names, sub \in Subs :
          call = [op |-> "filter", name |-> name, sub |-> sub,
                  done |-> FALSE, result |-> FALSE]

IsExactTitleMatch ==
  /\ call.op = "isExactTitleMatch" /\ ~call.done
  /\ call' = [call EXCEPT !.done = TRUE,
                          !.result = isExactTitleMatch(call.movieName, call.subText)]
  /\ UNCHANGED serverVars

\* results.filter(sub => ...) on one result (line 486-490)
TitleFilter ==
  /\ call.op = "filter" /\ ~call.done
  /\ call' = [call EXCEPT !.done = TRUE, !.result = titleFilter(call.name, call.sub)]
  /\ UNCHANGED serverVars

MatchNext == IsExactTitleMatch \/ TitleFilter

MatchSpec == MatchInit /\ [][MatchNext]_vars

\* ------------------------------------ release tags and scoring (server.js)
\* RELEASE_TAGS (line 199-209)
RELEASE_TAGS == <<
  <<"b", "l", "u", "r", "a", "y">>, <<"b", "d", "r", "i", "p">>,
  <<"b", "r", "r", "i", "p">>, <<"b", "d", "-", "r", "i", "p">>,
  <<"b", "l", "u", "-", "r", "a", "y">>,
  <<"b", "d", "r", "e", "m", "u", "x">>, <<"r", "e", "m", "u", "x">>,
  <<"w", "e", "b", "-", "d", "l">>, <<"w", "e", "b", "d", "l">>,
  <<"w", "e", "b", "r", "i", "p">>, <<"w", "e", "b", "-", "r", "i", "p">>,
  <<"w", "e", "b">>, <<"h", "d", "t", "v">>, <<"h", "d", "r", "i", "p">>,
  <<"d", "v", "d", "r", "i", "p">>, <<"d", "v", "d">>,
  <<"d", "v", "d", "s", "c", "r">>, <<"h", "d", "c", "a", "m">>,
  <<"c", "a", "m">>, <<"t", "s">>,
  <<"t", "e", "l", "e", "s", "y", "n", "c">>, <<"t", "c">>,
  <<"d", "c", "p">>, <<"2", "1", "6", "0", "p">>,
  <<"1", "0", "8", "0", "p">>, <<"7", "2", "0", "p">>,
  <<"4", "8", "0", "p">>, <<"x", "2", "6", "4">>, <<"x", "2", "6", "5">>,
  <<"h", "2", "6", "4">>, <<"h", "2", "6", "5">>, <<"h", "e", "v", "c">>,
  <<"a", "v", "c">>, <<"h", "d", "r">>, <<"h", "d", "r", "1", "0">>,
  <<"d", "o", "l", "b", "y", "-", "v", "i", "s", "i", "o", "n">>,
  <<"s", "d", "r">>, <<"a", "t", "m", "o", "s">>, <<"d", "t", "s">>,
  <<"d", "t", "s", "-", "h", "d">>, <<"t", "r", "u", "e", "h", "d">>,
  <<"a", "a", "c">>, <<"a", "c", "3">>, <<"d", "d", "5">>,
  <<"f", "l", "a", "c">>, <<"i", "m", "a", "x">>,
  <<"r", "e", "p", "a", "c", "k">>, <<"p", "r", "o", "p", "e", "r">>,
  <<"d", "u", "a", "l">>>>

\* lower-case, '.', '_' and '-' to spaces (line 213, 667)
tagText(s) ==
  [i \in DOMAIN s |->
     IF lowerChar(s[i]) \in {".", "_", "-"} THEN " " ELSE lowerChar(s[i])]

\* tag.replace(/[-]/g, ' ')
tagLower(tag) == [i \in DOMAIN tag |-> IF tag[i] = "-" THEN " " ELSE tag[i]]

\* the tags of RELEASE_TAGS found in a file name, in the order of the list
extractReleaseTags(filename) ==
  IF filename = <<>> THEN <<>>
  ELSE LET lower == tagText(filename)
           found(tag) == includes(lower, tagLower(tag))
       IN  SelectSeq(RELEASE_TAGS, found)

\* the lists of scoreSubtitle (line 227, 232, 237)
resolutions == <<<<"2", "1", "6", "0", "p">>, <<"1", "0", "8", "0", "p">>,
                 <<"7", "2", "0", "p">>, <<"4", "8", "0", "p">>>>
sources == <<
  <<"b", "l", "u", "r", "a", "y">>, <<"b", "d", "r", "e", "m", "u", "x">>,
  <<"r", "e", "m", "u", "x">>, <<"w", "e", "b", "-", "d", "l">>,
  <<"w", "e", "b", "d", "l">>, <<"w", "e", "b", "r", "i", "p">>,
  <<"h", "d", "t", "v">>, <<"d", "v", "d", "r", "i", "p">>, <<"d", "c", "p">>>>
codecs == <<
  <<"x", "2", "6", "4">>, <<"x", "2", "6", "5">>, <<"h", "2", "6", "4">>,
  <<"h", "2", "6", "5">>, <<"h", "e", "v", "c">>, <<"a", "v", "c">>>>

\* one loop of scoreSubtitle: points for every tag of the list in both arrays
RECURSIVE matchPoints(_, _, _, _)
matchPoints(list, playingTags, subTags, points) ==
  IF list = <<>> THEN 0
  ELSE (IF Head(list) \in InSeq(playingTags) /\ Head(list) \in InSeq(subTags)
          THEN points ELSE 0)
       + matchPoints(Tail(list), playingTags, subTags, points)

\* a score that counts each class of tags once
scoreSubtitleOncePerClass(subVersion, playingTags) ==
  IF subVersion = <<>> \/ Len(playingTags) = 0 THEN 0
  ELSE LET subTags == extractReleaseTags(subVersion)
           once(list, points) ==
             IF matchPoints(list, playingTags, subTags, points) > 0 THEN points ELSE 0
       IN  once(resolutions, 20) + once(sources, 15) + once(codecs, 5)

scoreSubtitle(subVersion, playingTags) ==
  IF subVersion = <<>> \/ Len(playingTags) = 0 THEN 0
  ELSE LET subTags == extractReleaseTags(subVersion)
       IN  matchPoints(resolutions, playingTags, subTags, 20)
           + matchPoints(sources, playingTags, subTags, 15)
           + matchPoints(codecs, playingTags, subTags, 5)

\* QUALITY_ORDER (line 640-662)
QUALITY_ORDER == <<
  [tag |-> <<"2", "1", "6", "0", "p">>, score |-> 100],
  [tag |-> <<"r", "e", "m", "u", "x">>, score |-> 95],
  [tag |-> <<"b", "d", "r", "e", "m", "u", "x">>, score |-> 95],
  [tag |-> <<"b", "l", "u", "r", "a", "y">>, score |-> 90],
  [tag |-> <<"b", "l", "u", "-", "r", "a", "y">>, score |-> 90],
  [tag |-> <<"1", "0", "8", "0", "p">>, score |-> 80],
  [tag |-> <<"w", "e", "b", "-", "d", "l">>, score |-> 70],
  [tag |-> <<"w", "e", "b", "d", "l">>, score |-> 70],
  [tag |-> <<"w", "e", "b", "r", "i", "p">>, score |-> 65],
  [tag |-> <<"7", "2", "0", "p">>, score |-> 60],
  [tag |-> <<"h", "d", "t", "v">>, score |-> 50],
  [tag |-> <<"h", "d", "r", "i", "p">>, score |-> 45],
  [tag |-> <<"b", "r", "r", "i", "p">>, score |-> 40],
  [tag |-> <<"b", "d", "r", "i", "p">>, score |-> 40],
  [tag |-> <<"d", "v", "d", "r", "i", "p">>, score |-> 30],
  [tag |-> <<"d", "v", "d">>, score |-> 25],
  [tag |-> <<"4", "8", "0", "p">>, score |-> 20],
  [tag |-> <<"h", "d", "c", "a", "m">>, score |-> 10],
  [tag |-> <<"c", "a", "m">>, score |-> 5],
  [tag |-> <<"t", "s">>, score |-> 5],
  [tag |-> <<"t", "e", "l", "e", "s", "y", "n", "c">>, score |-> 5]>>

\* the loop of qualityScore from entry i on, best being the score so far
RECURSIVE bestFrom(_, _, _)
bestFrom(lower, i, best) ==
  IF i > Len(QUALITY_ORDER) THEN best
  ELSE LET q == QUALITY_ORDER[i]
       IN  bestFrom(lower, i + 1,
                    IF includes(lower, tagLower(q.tag)) /\ q.score > best
                      THEN q.score ELSE best)

\* the loop of a score that adds up the scores of the tags found
RECURSIVE sumFrom(_, _)
sumFrom(lower, i) ==
  IF i > Len(QUALITY_ORDER) THEN 0
  ELSE (IF includes(lower, tagLower(QUALITY_ORDER[i].tag))
          THEN QUALITY_ORDER[i].score ELSE 0) + sumFrom(lower, i + 1)

qualityScoreSum(text) == IF text = <<>> THEN 0 ELSE sumFrom(tagText(text), 1)

qualityScore(text) == IF text = <<>> THEN 0 ELSE bestFrom(tagText(text), 1, 0)

\* sub.version || sub.title (line 497-498)
labelOf(sub) == IF sub.version # <<>> THEN sub.version ELSE sub.title

\* the pieces labels and file names are made of
MaxLabelTokens == 2
LabelTokens == {<<"2", "1", "6", "0", "p">>, <<"7", "2", "0", "p">>, <<"1", "0", "8", "0", "p">>,
                <<"D", "V", "D", "R", "i", "p">>, <<"B", "l", "u", "-", "R", "a", "y">>, <<"W", "E", "B", ".", "D", "L">>,
                <<"x", "2", "6", "4">>, <<"H", "E", "V", "C">>, <<".", "B", "D", "R", "e", "m", "u", "x", ".">>,
                <<".">>, <<"F", "i", "l", "m">>}
Labels == {Flat(ts) : ts \in UNION {[1..n -> LabelTokens] : n \in 0..MaxLabelTokens}}

\* the name of the playing file: none, one without tags, and tagged ones
PlayingFilenames ==
  {<<>>, <<"F", "i", "l", "m", ".", "m", "k", "v">>,
   <<"F", "i", "l", "m", ".", "1", "0", "8", "0", "p", ".", "B", "l", "u", "R", "a", "y", ".", "x", "2", "6", "4">>,
   <<"F", "i", "l", "m", " ", "2", "1", "6", "0", "p", " ", "7", "2", "0", "p", " ", "B", "D", "R", "e", "m", "u", "x", " ", "W", "E", "B", "-", "D", "L", " ", "h", "e", "v", "c">>}

ScoreInit ==
  /\ Quiet
  /\ \E playingFilename \in PlayingFilenames, version \in Labels,
        title \in {<<>>, <<"F", "i", "l", "m", " ", "7", "2", "0", "p">>} :
       call = [op |-> "score", pc |-> "tags", playingFilename |-> playingFilename,
               playingTags |-> <<>>,
               sub |-> [version |-> version, title |-> title],
               done |-> FALSE, score |-> 0]

\* const playingTags = extractReleaseTags(playingFilename) (line 481)
PlayingTagsExtracted ==
  /\ call.op = "score" /\ call.pc = "tags"
  /\ call' = [call EXCEPT !.pc = "score",
                !.playingTags = extractReleaseTags(call.playingFilename)]
  /\ UNCHANGED serverVars

\* line 494-499 for one result, hasReleaseTags being true
ScoreByTags ==
  /\ call.op = "score" /\ call.pc = "score" /\ ~call.done
  /\ Len(call.playingTags) > 0
  /\ call' = [call EXCEPT !.done = TRUE,
                !.score = scoreSubtitle(labelOf(call.sub), call.playingTags)]
  /\ UNCHANGED serverVars

\* line 494-499 for one result, hasReleaseTags being false
ScoreByQuality ==
  /\ call.op = "score" /\ call.pc = "score" /\ ~call.done
  /\ Len(call.playingTags) = 0
  /\ call' = [call EXCEPT !.done = TRUE, !.score = qualityScore(labelOf(call.sub))]
  /\ UNCHANGED serverVars

ScoreNext == PlayingTagsExtracted \/ ScoreByTags \/ ScoreByQuality

ScoreSpec == ScoreInit /\ [][ScoreNext]_vars

\* --------------------------------------------- srtToVtt (server.js 834-841)
\* text.replace(/\r\n/g, '\n')
replaceCrLf(s) ==
  LET withNext == [i \in DOMAIN s |-> <<s[i], IF i < Len(s) THEN s[i + 1] ELSE "">>]
      notCrOfCrLf(p) == ~(p[1] = "\r" /\ p[2] = "\n")
      kept == SelectSeq(withNext, notCrOfCrLf)
  IN  [j \in DOMAIN kept |-> kept[j][1]]

\* /(\d{2}:\d{2}:\d{2}),(\d{3})/ matches at position i
srtTimeAt(s, i) ==
  /\ i + 11 <= Len(s)
  /\ \A k \in {0, 1, 3, 4, 6, 7, 9, 10, 11} : s[i + k] \in Digits
  /\ s[i + 2] = ":" /\ s[i + 5] = ":" /\ s[i + 8] = ","

\* .replace(/(\d{2}:\d{2}:\d{2}),(\d{3})/g, '$1.$2') from position i on: the
\* text up to the next match, the match rewritten, and on behind the match
RECURSIVE replaceTimeCommas(_, _)
replaceTimeCommas(s, i) ==
  LET matches == {p \in i..Len(s) : srtTimeAt(s, p)} IN
  IF matches = {} THEN SubSeq(s, i, Len(s))
  ELSE LET p == CHOOSE m \in matches : \A k \in matches : m <= k
       IN  SubSeq(s, i, p - 1) \o SubSeq(s, p, p + 7) \o <<".">>
           \o SubSeq(s, p + 9, p + 11) \o replaceTimeCommas(s, p + 12)

\* 'WEBVTT\n\n'
WEBVTT == <<"W", "E", "B", "V", "T", "T", "\n", "\n">>

vttBody(text) == replaceTimeCommas(replaceCrLf(text), 1)

\* a converter that puts the header before the body as it is
srtToVttUntrimmed(srtContent) == WEBVTT \o vttBody(srtContent)

srtToVtt(srtContent) == WEBVTT \o trim(vttBody(srtContent)) \o <<"\n">>

\* the pieces SRT files are made of
SrtTimes == <<"0", "0", ":", "0", "0", ":", "0", "1", ",", "0", "0", "0", " ",
            "-", "-", ">", " ", "0", "0", ":", "0", "0", ":", "0", "2", ",",
            "5", "0", "0">>
MaxSrtTokens == 3
SrtTokens ==
  {<<"1", "\n">>, SrtTimes \o <<"\n">>, SrtTimes \o <<"\r", "\n">>,
   <<"H", "e", "l", "l", "o", "\n">>, <<"H", "e", "l", "l", "o">>,
   <<"\n">>, <<"\r", "\n">>, <<"\r">>, <<" ">>,
   <<"a", "t", " ", "1", "2", ":", "3", "4", ":", "5", "6", ",", "7", "8", "9">>,
   <<"1", ":", "0", "2", ":", "0", "3", ",", "4", "5">>}
SrtFiles == {Flat(ts) : ts \in UNION {[1..n -> SrtTokens] : n \in 0..MaxSrtTokens}}

\* ------------------------------------------ assToVtt (server.js 845-975)
\* the first position of i..Len(s) holding character c, or 0
firstOf(s, c, i) ==
  LET ps == {p \in i..Len(s) : s[p] = c}
  IN  IF ps = {} THEN 0 ELSE CHOOSE p \in ps : \A k \in ps : p <= k

\* text.split(/\r?\n/) from position i on
RECURSIVE splitLines(_, _)
splitLines(s, i) ==
  LET p == firstOf(s, "\n", i) IN
  IF p = 0 THEN <<SubSeq(s, i, Len(s))>>
  ELSE <<SubSeq(s, i, IF p > i /\ s[p - 1] = "\r" THEN p - 2 ELSE p - 1)>>
       \o splitLines(s, p + 1)

\* s.split(',') from position i on
RECURSIVE splitCommas(_, _)
splitCommas(s, i) ==
  LET p == firstOf(s, ",", i) IN
  IF p = 0 THEN <<SubSeq(s, i, Len(s))>>
  ELSE <<SubSeq(s, i, p - 1)>> \o splitCommas(s, p + 1)

\* parts.join(',')
RECURSIVE joinCommas(_)
joinCommas(parts) ==
  IF parts = <<>> THEN <<>>
  ELSE IF Len(parts) = 1 THEN parts[1]
  ELSE parts[1] \o <<",">> \o joinCommas(Tail(parts))

\* /^prefix/i.test(line), prefix being in lower case
testPrefix(line, prefix) == startsWith(toLowerCase(line), prefix)

\* /^\[V4\+?\s*Styles?\]/i.test(trimmed)
isStylesHeader(trimmed) ==
  /\ testPrefix(trimmed, <<"[", "v", "4">>)
  /\ LET a == slice(toLowerCase(trimmed), 3)
         b == trimStart(IF startsWith(a, <<"+">>) THEN slice(a, 1) ELSE a)
     IN  startsWith(b, <<"s", "t", "y", "l", "e", "s", "]">>) \/ startsWith(b, <<"s", "t", "y", "l", "e", "]">>)

\* /^\[Events\]/i.test(trimmed)
isEventsHeader(trimmed) == testPrefix(trimmed, <<"[", "e", "v", "e", "n", "t", "s", "]">>)

\* trimmed.replace(/^Format:\s*/i, '').split(',').map(f => f.trim().toLowerCase())
formatOf(trimmed) ==
  LET parts == splitCommas(trimStart(slice(trimmed, 7)), 1)
  IN  [k \in DOMAIN parts |-> toLowerCase(trim(parts[k]))]

\* fields.indexOf(name) + 1: the position of the field, 0 when absent
indexOf(fields, name) ==
  LET ks == {k \in DOMAIN fields : fields[k] = name}
  IN  IF ks = {} THEN 0 ELSE CHOOSE k \in ks : \A j \in ks : k <= j

\* assColorToVtt (line 933-944): null is <<>>
assColorToVtt(assColor) ==
  IF assColor = <<>> THEN <<>>
  ELSE LET a == IF testPrefix(assColor, <<"&", "h">>) THEN slice(assColor, 2) ELSE assColor
           m == IF a # <<>> /\ a[Len(a)] = "&" THEN SubSeq(a, 1, Len(a) - 1) ELSE a
           n == Len(m)
       IN  IF n >= 6
             THEN <<"#">> \o SubSeq(m, n - 1, n) \o SubSeq(m, n - 3, n - 2)
                  \o SubSeq(m, n - 5, n - 4)
             ELSE <<>>

\* parts[idx]?.trim(), idx being a position or 0
partAt(parts, k) == IF k \in DOMAIN parts THEN trim(parts[k]) ELSE <<>>

\* a Style: line in the styles section (line 868-881)
styleOf(parts, styleFormat) ==
  LET colorIdx == indexOf(styleFormat, <<"p", "r", "i", "m", "a", "r", "y", "c", "o", "l", "o", "u", "r">>)
      boldIdx == indexOf(styleFormat, <<"b", "o", "l", "d">>)
      italicIdx == indexOf(styleFormat, <<"i", "t", "a", "l", "i", "c">>)
      on(k) == k > 0 /\ partAt(parts, k) \in {<<"-", "1">>, <<"1">>}
  IN  [color |-> IF colorIdx > 0 THEN assColorToVtt(partAt(parts, colorIdx)) ELSE <<>>,
       bold |-> on(boldIdx), italic |-> on(italicIdx)]

\* the length of the run of digits that starts at position i
digitRun(s, i) ==
  LET stops == {p \in i..Len(s) : s[p] \notin Digits}
  IN  (IF stops = {} THEN Len(s) + 1 ELSE CHOOSE p \in stops : \A k \in stops : p <= k) - i

\* the four groups of /(\d+):(\d+):(\d+)\.(\d+)/ matched at position i, or <<>>
timeGroupsAt(s, i) ==
  LET n1 == digitRun(s, i)
      i2 == i + n1 + 1
      n2 == digitRun(s, i2)
      i3 == i2 + n2 + 1
      n3 == digitRun(s, i3)
      i4 == i3 + n3 + 1
      n4 == digitRun(s, i4)
  IN  IF /\ n1 > 0 /\ i2 - 1 <= Len(s) /\ s[i2 - 1] = ":"
         /\ n2 > 0 /\ i3 - 1 <= Len(s) /\ s[i3 - 1] = ":"
         /\ n3 > 0 /\ i4 - 1 <= Len(s) /\ s[i4 - 1] = "."
         /\ n4 > 0
        THEN <<SubSeq(s, i, i + n1 - 1), SubSeq(s, i2, i2 + n2 - 1),
               SubSeq(s, i3, i3 + n3 - 1), SubSeq(s, i4, i4 + n4 - 1)>>
        ELSE <<>>

\* s.padStart(2, '0')
padStart2(s) ==
  IF Len(s) >= 2 THEN s ELSE IF Len(s) = 1 THEN <<"0">> \o s ELSE <<"0", "0">>

\* s.padEnd(3, '0').substring(0, 3)
padEnd3(s) == SubSeq(s \o <<"0", "0", "0">>, 1, 3)

\* a conversion that leaves the time as it is written
assTimeKept(assTime) == assTime

\* assTimeToVtt (line 922-931)
assTimeToVtt(assTime) ==
  LET ms == {i \in DOMAIN assTime : timeGroupsAt(assTime, i) # <<>>} IN
  IF ms = {} THEN <<"0", "0", ":", "0", "0", ":", "0", "0", ".", "0", "0", "0">>
  ELSE LET m == timeGroupsAt(assTime, CHOOSE i \in ms : \A k \in ms : i <= k)
       IN  padStart2(m[1]) \o <<":">> \o padStart2(m[2]) \o <<":">>
           \o padStart2(m[3]) \o <<".">> \o padEnd3(m[4])

\* s.replace(/pat/g, rep) for a literal pattern, from position i on
RECURSIVE replaceAll(_, _, _, _)
replaceAll(s, pat, rep, i) ==
  LET ms == {p \in i..Len(s) : startsWith(slice(s, p - 1), pat)} IN
  IF ms = {} THEN SubSeq(s, i, Len(s))
  ELSE LET p == CHOOSE m \in ms : \A k \in ms : m <= k
       IN  SubSeq(s, i, p - 1) \o rep \o replaceAll(s, pat, rep, p + Len(pat))

\* the inline tag {\<letter><digit>}
inlineTag(letter, digit) == <<"{", "\\", letter, digit, "}">>

HexDigits == Digits \cup {"a", "b", "c", "d", "e", "f", "A", "B", "C", "D", "E", "F"}

\* the length of the match of /\{\\(?:1)?c&H([0-9A-Fa-f]{6})&?\}/ at position
\* p, or 0; its group starts 6 characters before the optional & and the }
colorTagAt(s, p) ==
  LET a == IF p + 2 <= Len(s) /\ s[p + 2] = "1" THEN p + 3 ELSE p + 2
      z == IF a + 9 <= Len(s) /\ s[a + 9] = "&" THEN a + 10 ELSE a + 9
  IN  IF /\ z <= Len(s)
         /\ s[p] = "{" /\ s[p + 1] = "\\"
         /\ s[a] = "c" /\ s[a + 1] = "&" /\ s[a + 2] = "H"
         /\ \A k \in 3..8 : s[a + k] \in HexDigits
         /\ s[z] = "}"
        THEN z - p + 1 ELSE 0

\* the colour tags replaced by <c.color#rrggbb> (line 957-960)
RECURSIVE replaceColorTags(_, _)
replaceColorTags(s, i) ==
  LET ms == {p \in i..Len(s) : colorTagAt(s, p) > 0} IN
  IF ms = {} THEN SubSeq(s, i, Len(s))
  ELSE LET p == CHOOSE m \in ms : \A k \in ms : m <= k
           n == colorTagAt(s, p)
           a == IF s[p + 2] = "1" THEN p + 3 ELSE p + 2
           color == assColorToVtt(<<"&", "H">> \o SubSeq(s, a + 3, a + 8))
       IN  SubSeq(s, i, p - 1)
           \o (IF color # <<>> THEN <<"<", "c", ".", "c", "o", "l", "o", "r">> \o color \o <<">">> ELSE <<>>)
           \o replaceColorTags(s, p + n)

\* result.replace(/\{[^}]*\}/g, '') from position i on (line 962)
RECURSIVE removeTags(_, _)
removeTags(s, i) ==
  LET p == firstOf(s, "{", i)
      q == IF p = 0 THEN 0 ELSE firstOf(s, "}", p + 1)
  IN  IF q = 0 THEN SubSeq(s, i, Len(s))
      ELSE SubSeq(s, i, p - 1) \o removeTags(s, q + 1)

\* assTextToVtt (line 946-974); style is NoStyle for null
NoStyle == [color |-> <<>>, bold |-> FALSE, italic |-> FALSE]

assTextToVtt(text, style) ==
  LET tag(s, letter, digit, markup) == replaceAll(s, inlineTag(letter, digit), markup, 1)
      b == tag(tag(text, "b", "1", <<"<", "b", ">">>), "b", "0", <<"<", "/", "b", ">">>)
      i == tag(tag(b, "i", "1", <<"<", "i", ">">>), "i", "0", <<"<", "/", "i", ">">>)
      u == tag(tag(i, "u", "1", <<"<", "u", ">">>), "u", "0", <<"<", "/", "u", ">">>)
      plain == removeTags(replaceColorTags(u, 1), 1)
      broken == replaceAll(replaceAll(replaceAll(plain, <<"\\", "N">>, <<"\n">>, 1),
                                      <<"\\", "n">>, <<"\n">>, 1),
                           <<"\\", "h">>, <<" ">>, 1)
      bold == IF style.bold THEN <<"<", "b", ">">> \o broken \o <<"<", "/", "b", ">">> ELSE broken
      italic == IF style.italic THEN <<"<", "i", ">">> \o bold \o <<"<", "/", "i", ">">> ELSE bold
      colored == IF style.color # <<>>
                   THEN <<"<", "c", ".", "c", "o", "l", "o", "r">> \o style.color \o <<">">> \o italic \o <<"<", "/", "c", ">">>
                   ELSE italic
  IN  trim(colored)

\* the variables of the line scan before the first line (line 850-858)
ScanStart ==
  [inStyles |-> FALSE, inEvents |-> FALSE, styleFormat |-> <<>>,
   formatFields |-> <<>>, styles |-> EmptyMap, dialogues |-> <<>>, broke |-> FALSE]

\* a Dialogue: line in the events section (line 896-912)
dialogueLine(st, trimmed) ==
  LET parts == splitCommas(trimStart(slice(trimmed, 9)), 1)
      startIdx == indexOf(st.formatFields, <<"s", "t", "a", "r", "t">>)
      endIdx == indexOf(st.formatFields, <<"e", "n", "d">>)
      textIdx == indexOf(st.formatFields, <<"t", "e", "x", "t">>)
      styleIdx == indexOf(st.formatFields, <<"s", "t", "y", "l", "e">>)
      styleName == partAt(parts, styleIdx)
  IN  IF Len(parts) >= Len(st.formatFields) /\ startIdx > 0 /\ endIdx > 0 /\ textIdx > 0
        THEN [st EXCEPT !.dialogues = Append(@,
                [start |-> assTimeToVtt(trim(parts[startIdx])),
                 end |-> assTimeToVtt(trim(parts[endIdx])),
                 text |-> assTextToVtt(
                            trim(joinCommas(SubSeq(parts, textIdx, Len(parts)))),
                            IF styleIdx > 0 /\ Has(st.styles, styleName)
                              THEN st.styles[styleName] ELSE NoStyle)])]
        ELSE st

\* a scan that no header ends
endsEventsNever(st, trimmed) == FALSE

\* /^\[/.test(trimmed) && inEvents (line 887), after the tests for the styles
\* and events headers: the loop breaks
endsEvents(st, trimmed) == startsWith(trimmed, <<"[">>) /\ st.inEvents

\* the body of the loop over the lines for one line (line 860-913)
scanLine(st, line) ==
  LET trimmed == trim(line) IN
  IF isStylesHeader(trimmed) THEN [st EXCEPT !.inStyles = TRUE, !.inEvents = FALSE]
  ELSE IF st.inStyles /\ testPrefix(trimmed, <<"f", "o", "r", "m", "a", "t", ":">>)
    THEN [st EXCEPT !.styleFormat = formatOf(trimmed)]
  ELSE IF st.inStyles /\ testPrefix(trimmed, <<"s", "t", "y", "l", "e", ":">>)
    THEN LET parts == splitCommas(trimStart(slice(trimmed, 6)), 1)
             nameIdx == indexOf(st.styleFormat, <<"n", "a", "m", "e">>)
         IN  IF nameIdx > 0 /\ nameIdx <= Len(parts) /\ parts[nameIdx] # <<>>
               THEN [st EXCEPT !.styles =
                       MapSet(@, trim(parts[nameIdx]), styleOf(parts, st.styleFormat))]
               ELSE st
  ELSE IF isEventsHeader(trimmed) THEN [st EXCEPT !.inEvents = TRUE, !.inStyles = FALSE]
  ELSE IF endsEvents(st, trimmed) THEN [st EXCEPT !.broke = TRUE]
  ELSE IF st.inEvents /\ testPrefix(trimmed, <<"f", "o", "r", "m", "a", "t", ":">>)
    THEN [st EXCEPT !.formatFields = formatOf(trimmed)]
  ELSE IF st.inEvents /\ testPrefix(trimmed, <<"d", "i", "a", "l", "o", "g", "u", "e", ":">>)
    THEN dialogueLine(st, trimmed)
  ELSE st

\* for (const line of lines) from line i on
RECURSIVE scanLines(_, _, _)
scanLines(lines, i, st) ==
  IF i > Len(lines) \/ st.broke THEN st
  ELSE scanLines(lines, i + 1, scanLine(st, lines[i]))

\* the dialogues array of assToVtt
assDialogues(assContent) == scanLines(splitLines(assContent, 1), 1, ScanStart).dialogues

\* an output of the last cue only
cuesOfLast(ds) ==
  IF ds = <<>> THEN <<>>
  ELSE ds[Len(ds)].start \o <<" ", "-", "-", ">", " ">> \o ds[Len(ds)].end
       \o <<"\n">> \o ds[Len(ds)].text \o <<"\n">>

\* dialogues.map(d => `${d.start} --> ${d.end}\n${d.text}\n`).join('\n')
RECURSIVE cuesOf(_)
cuesOf(ds) ==
  IF ds = <<>> THEN <<>>
  ELSE ds[1].start \o <<" ", "-", "-", ">", " ">> \o ds[1].end \o <<"\n">> \o ds[1].text \o <<"\n">>
       \o (IF Len(ds) > 1 THEN <<"\n">> \o cuesOf(Tail(ds)) ELSE <<>>)

assToVtt(assContent) == WEBVTT \o cuesOf(assDialogues(assContent))

\* ASS files: a time is written as its four groups of digits, a text as its
\* pieces, each plain (tag "") or between the pair {\tag1} ... {\tag0}
AssTime(h, m, s, cc) == [h |-> h, m |-> m, s |-> s, cc |-> cc]
AssTimePairs ==
  {<<AssTime(<<"0">>, <<"0", "0">>, <<"0", "1">>, <<"0", "0">>),
     AssTime(<<"0">>, <<"0", "0">>, <<"0", "3">>, <<"0", "0">>)>>,
   <<AssTime(<<"1">>, <<"0", "2">>, <<"0", "3">>, <<"4", "5">>),
     AssTime(<<"1", "0">>, <<"0", "0">>, <<"0", "0">>, <<"5", "0">>)>>}
Piece(tag, chars) == [tag |-> tag, chars |-> chars]
HelloWorld == <<Piece("b", <<"H", "e", "l", "l", "o">>), Piece("", <<" ", "w", "o", "r", "l", "d">>)>>
AssTexts ==
  {HelloWorld,
   <<Piece("i", <<"a">>), Piece("", <<",", " ">>), Piece("u", <<"b">>)>>,
   <<Piece("", <<"p", "l", "a", "i", "n">>)>>}
AssDialogues ==
  {[start |-> tp[1], end |-> tp[2], text |-> x] : tp \in AssTimePairs, x \in AssTexts}
MaxDialogues == 2
AssFiles ==
  [styles : {"none", "plain", "bold"}, format : {"full", "short", "notext"},
   crlf : BOOLEAN,
   dialogues : UNION {[1..n -> AssDialogues] : n \in 1..MaxDialogues}]

timeText(t) == t.h \o <<":">> \o t.m \o <<":">> \o t.s \o <<".">> \o t.cc
pieceText(p) ==
  IF p.tag = "" THEN p.chars
  ELSE inlineTag(p.tag, "1") \o p.chars \o inlineTag(p.tag, "0")
assText(pieces) == Flat([k \in DOMAIN pieces |-> pieceText(pieces[k])])

\* the lines of the styles section of a file
styleLines(styles) ==
  IF styles = "none" THEN <<>>
  ELSE IF styles = "plain"
    THEN <<<<"[", "V", "4", "+", " ", "S", "t", "y", "l", "e", "s", "]">>,
           <<"F", "o", "r", "m", "a", "t", ":", " ", "N", "a", "m", "e", ",", " ", "B", "o", "l", "d", ",", " ", "I", "t", "a", "l", "i", "c">>,
           <<"S", "t", "y", "l", "e", ":", " ", "D", "e", "f", "a", "u", "l", "t", ",", "0", ",", "0">>>>
  ELSE <<<<"[", "V", "4", "+", " ", "S", "t", "y", "l", "e", "s", "]">>,
         <<"F", "o", "r", "m", "a", "t", ":", " ", "N", "a", "m", "e", ",",
           " ", "P", "r", "i", "m", "a", "r", "y", "C", "o", "l", "o", "u",
           "r", ",", " ", "B", "o", "l", "d", ",", " ", "I", "t", "a", "l",
           "i", "c">>,
         <<"S", "t", "y", "l", "e", ":", " ", "D", "e", "f", "a", "u", "l",
           "t", ",", "&", "H", "0", "0", "0", "0", "F", "F", "F", "F", ",",
           "-", "1", ",", "0">>>>

\* the Format: line of the events section of a file
formatLine(format) ==
  IF format = "full"
    THEN <<"F", "o", "r", "m", "a", "t", ":", " ", "L", "a", "y", "e", "r",
           ",", " ", "S", "t", "a", "r", "t", ",", " ", "E", "n", "d", ",",
           " ", "S", "t", "y", "l", "e", ",", " ", "N", "a", "m", "e", ",",
           " ", "M", "a", "r", "g", "i", "n", "L", ",", " ", "M", "a", "r",
           "g", "i", "n", "R", ",", " ", "M", "a", "r", "g", "i", "n", "V",
           ",", " ", "E", "f", "f", "e", "c", "t", ",", " ", "T", "e", "x",
           "t">>
  ELSE IF format = "short" THEN <<"F", "o", "r", "m", "a", "t", ":", " ", "S",
                                 "t", "a", "r", "t", ",", " ", "E", "n", "d",
                                 ",", " ", "T", "e", "x", "t">>
  ELSE <<"f", "o", "r", "m", "a", "t", ":", " ", "S", "t", "a", "r", "t", ",", " ", "E", "n", "d">>

\* a Dialogue: line with the fields of the Format: line
dialogueText(format, d) ==
  IF format = "full"
    THEN <<"D", "i", "a", "l", "o", "g", "u", "e", ":", " ", "0", ",">> \o timeText(d.start) \o <<",">> \o timeText(d.end)
         \o <<",", "D", "e", "f", "a", "u", "l", "t", ",", ",", "0", ",", "0", ",", "0", ",", ",">> \o assText(d.text)
    ELSE <<"D", "i", "a", "l", "o", "g", "u", "e", ":", " ">> \o timeText(d.start) \o <<",">> \o timeText(d.end)
         \o <<",">> \o assText(d.text)

RECURSIVE joinLines(_, _)
joinLines(lines, eol) ==
  IF lines = <<>> THEN <<>> ELSE lines[1] \o eol \o joinLines(Tail(lines), eol)

\* the characters of a file
renderAss(f) ==
  joinLines(<<<<"[", "S", "c", "r", "i", "p", "t", " ", "I", "n", "f", "o", "]">>>> \o styleLines(f.styles)
            \o <<<<"[", "E", "v", "e", "n", "t", "s", "]">>, formatLine(f.format)>>
            \o [k \in DOMAIN f.dialogues |-> dialogueText(f.format, f.dialogues[k])],
            IF f.crlf THEN <<"\r", "\n">> ELSE <<"\n">>)

ConvertInit ==
  /\ Quiet
  /\ \/ \E srtContent \in SrtFiles :
          call = [op |-> "srtToVtt", in |-> srtContent, done |-> FALSE, out |-> <<>>]
     \/ \E f \in AssFiles :
          call = [op |-> "assToVtt", file |-> f, in |-> renderAss(f), done |-> FALSE,
                  dialogues |-> <<>>, out |-> <<>>]

SrtToVtt ==
  /\ call.op = "srtToVtt" /\ ~call.done
  /\ call' = [call EXCEPT !.done = TRUE, !.out = srtToVtt(call.in)]
  /\ UNCHANGED serverVars

AssToVtt ==
  /\ call.op = "assToVtt" /\ ~call.done
  /\ call' = [call EXCEPT !.done = TRUE, !.dialogues = assDialogues(call.in),
                          !.out = assToVtt(call.in)]
  /\ UNCHANGED serverVars

ConvertNext == SrtToVtt \/ AssToVtt

ConvertSpec == ConvertInit /\ [][ConvertNext]_vars

\* --------------------------------- ensureUtf8 on bytes (server.js 677-718)
\* a Buffer is its sequence of bytes, a decoded string its sequence of UTF-16
\* code units; U+FFFD is 65533
REPLACEMENT == 65533

\* a UTF-8 continuation byte, 0x80-0xBF
isContinuation(b) == b \in 128..191

\* the length of the sequence a byte leads: 0xC2-0xDF 2, 0xE0-0xEF 3,
\* 0xF0-0xF4 4; 1 for ASCII and for the bytes that lead nothing
leadLength(b) ==
  IF b \in 194..223 THEN 2 ELSE IF b \in 224..239 THEN 3
  ELSE IF b \in 240..244 THEN 4 ELSE 1

\* the bytes allowed right after a lead byte (0xE0, 0xED, 0xF0, 0xF4 narrow it)
secondBytes(lead) ==
  IF lead = 224 THEN 160..191 ELSE IF lead = 237 THEN 128..159
  ELSE IF lead = 240 THEN 144..191 ELSE IF lead = 244 THEN 128..143
  ELSE 128..191

\* the bytes the decoder consumes for the unit that starts at position j: the
\* lead and the continuation bytes that follow it, as far as they are valid
unitLength(s, j) ==
  LET fits(t) == /\ j + t <= Len(s)
                 /\ s[j + t] \in (IF t = 1 THEN secondBytes(s[j]) ELSE 128..191)
      ms == {m \in 0..(leadLength(s[j]) - 1) : \A t \in 1..m : fits(t)}
  IN  1 + CHOOSE m \in ms : \A k \in ms : k <= m

\* position i starts a unit: it is not a continuation byte of a sequence led
\* from one of the three positions before it
startsUnit(s, i) ==
  ~(/\ isContinuation(s[i])
    /\ \E j \in (i - 3)..(i - 1) :
         j >= 1 /\ leadLength(s[j]) > 1 /\ j + unitLength(s, j) > i)

\* the code point of the unit that starts at j: U+FFFD for a byte that leads
\* nothing and for a sequence cut short
codePoint(s, j) ==
  LET n == leadLength(s[j]) IN
  IF s[j] < 128 THEN s[j]
  ELSE IF n = 1 \/ unitLength(s, j) < n THEN REPLACEMENT
  ELSE IF n = 2 THEN (s[j] - 192) * 64 + (s[j + 1] - 128)
  ELSE IF n = 3 THEN (s[j] - 224) * 4096 + (s[j + 1] - 128) * 64 + (s[j + 2] - 128)
  ELSE (s[j] - 240) * 262144 + (s[j + 1] - 128) * 4096
       + (s[j + 2] - 128) * 64 + (s[j + 3] - 128)

\* buffer.toString('utf-8'): one code unit per unit, two (a surrogate pair,
\* the second counted at the unit's second byte) for a code point above U+FFFF
utf8Decode(s) ==
  LET astral(j) == startsUnit(s, j) /\ codePoint(s, j) > 65535
      emits(i) == startsUnit(s, i) \/ (i > 1 /\ astral(i - 1))
      at == SelectSeq([i \in DOMAIN s |-> i], emits)
      unit(i) ==
        IF ~startsUnit(s, i) THEN 56320 + ((codePoint(s, i - 1) - 65536) % 1024)
        ELSE IF codePoint(s, i) > 65535
          THEN 55296 + ((codePoint(s, i) - 65536) \div 1024)
        ELSE codePoint(s, i)
  IN  [k \in DOMAIN at |-> unit(at[k])]

\* iconv.decode(buffer, 'utf-16le'): the byte-order mark is stripped, a last
\* odd byte is dropped
utf16leDecode(s) ==
  LET body == IF Len(s) >= 2 /\ s[1] = 255 /\ s[2] = 254 THEN SubSeq(s, 3, Len(s)) ELSE s
  IN  [k \in 1..(Len(body) \div 2) |-> body[2 * k - 1] + 256 * body[2 * k]]

\* the windows-1250 table, of the bytes above 0x7F that occur; 0x83 is unassigned
Win1250 ==
  [b \in {131, 141, 168, 187, 189, 191, 194, 195, 196, 232, 239, 254, 255} |->
     IF b = 131 THEN REPLACEMENT ELSE IF b = 141 THEN 356 ELSE IF b = 168 THEN 168
     ELSE IF b = 187 THEN 187 ELSE IF b = 189 THEN 733 ELSE IF b = 191 THEN 380
     ELSE IF b = 194 THEN 194 ELSE IF b = 195 THEN 258 ELSE IF b = 196 THEN 196
     ELSE IF b = 232 THEN 269 ELSE IF b = 239 THEN 271 ELSE IF b = 254 THEN 355
     ELSE 729]

\* iconv.decode(buffer, 'win1250')
win1250Decode(s) ==
  [i \in DOMAIN s |->
     IF s[i] < 128 THEN s[i]
     ELSE IF s[i] \in DOMAIN Win1250 THEN Win1250[s[i]] ELSE REPLACEMENT]

\* the matches of /[\xC0-\xC3][\x80-\xBF]/g: no two share a character
suspiciousAt(str) ==
  {i \in 1..(Len(str) - 1) : str[i] \in 192..195 /\ str[i + 1] \in 128..191}

\* a check that tests the share of suspicious sequences at every length
isValidUtf8AnyLength(str) ==
  /\ \A i \in DOMAIN str : str[i] # REPLACEMENT
  /\ ~(50 * Cardinality(suspiciousAt(str)) > Len(str))

\* isValidUtf8 (line 701-718); suspicious / totalChars > 0.02 is
\* 50 * suspicious > totalChars
isValidUtf8(str) ==
  IF \E i \in DOMAIN str : str[i] = REPLACEMENT THEN FALSE
  ELSE IF Len(str) > 50 /\ 50 * Cardinality(suspiciousAt(str)) > Len(str) THEN FALSE
  ELSE TRUE

\* the byte-order mark line 681 and 686 find
bomOf(s) ==
  IF Len(s) >= 3 /\ s[1] = 239 /\ s[2] = 187 /\ s[3] = 191 THEN "utf8"
  ELSE IF Len(s) >= 2 /\ s[1] = 255 /\ s[2] = 254 THEN "utf16le"
  ELSE "none"

\* a Buffer of bytes as ensureUtf8 sees it
bufOf(s) ==
  Buf(bomOf(s), isValidUtf8(utf8Decode(s)), utf8Decode(s), utf16leDecode(s),
      win1250Decode(s))

\* the pieces buffers are made of: 48 ASCII letters, one letter, one and two
\* double-encoded letters (C3 83 C2 A8), a Czech letter in UTF-8 and in
\* windows-1250, the two byte-order marks, and an encoded U+FFFD
Ascii48 == [i \in 1..48 |-> 97]
MaxChunks == 3
Chunks ==
  {Ascii48, <<98>>, <<195, 131, 194, 168>>,
   <<195, 131, 194, 168, 195, 131, 194, 168>>, <<196, 141>>, <<232>>,
   <<239, 187, 191>>, <<255, 254>>, <<239, 191, 189>>}
Buffers == {Flat(cs) : cs \in UNION {[1..n -> Chunks] : n \in 0..MaxChunks}}

EncodingInit ==
  /\ Quiet
  /\ \E buffer \in Buffers :
       call = [op |-> "ensureUtf8", in |-> buffer, done |-> FALSE, out |-> <<>>]

EnsureUtf8 ==
  /\ call.op = "ensureUtf8" /\ ~call.done
  /\ call' = [call EXCEPT !.done = TRUE, !.out = ensureUtf8(bufOf(call.in))]
  /\ UNCHANGED serverVars

EncodingNext == EnsureUtf8

EncodingSpec == EncodingInit /\ [][EncodingNext]_vars

\* ------------------- scoring, ordering and listing (server.js 492-547)
\* Array.prototype.sort with a comparator: stable, a before b when
\* compare(a, b) < 0; the place of element i is one more than the elements
\* that sort before it and the earlier elements that compare equal to it
sort(s, compare(_, _)) ==
  LET place(i) ==
        1 + Cardinality({j \in DOMAIN s : compare(s[j], s[i]) < 0})
          + Cardinality({j \in DOMAIN s : j < i /\ compare(s[j], s[i]) = 0})
  IN  [k \in DOMAIN s |-> s[CHOOSE i \in DOMAIN s : place(i) = k]]

\* line 493-499: each filtered result with its score
scoreResults(filtered, playingTags) ==
  [k \in DOMAIN filtered |->
     [sub |-> filtered[k],
      score |-> IF Len(playingTags) > 0
                  THEN scoreSubtitle(labelOf(filtered[k]), playingTags)
                  ELSE qualityScore(labelOf(filtered[k]))]]

\* the comparator of line 500
byScore(a, b) == b.score - a.score

\* an Omni comparator that does not look at the existence index
byScoreOmni(a, b, cachedIds, hasReleaseTags) == b.score - a.score

\* the comparator of line 508-514
byPriority(a, b, cachedIds, hasReleaseTags) ==
  LET aCached == IF a.sub.id \in cachedIds THEN 2 ELSE 0
      bCached == IF b.sub.id \in cachedIds THEN 2 ELSE 0
      aMatch == IF a.score > 0 /\ hasReleaseTags THEN 1 ELSE 0
      bMatch == IF b.score > 0 /\ hasReleaseTags THEN 1 ELSE 0
  IN  IF (bCached + bMatch) - (aCached + aMatch) # 0
        THEN (bCached + bMatch) - (aCached + aMatch)
        ELSE b.score - a.score

\* line 500-516: sorted by score, and in Omni mode sorted again by priority
sortResults(scoredResults, isOmni, cachedIds, hasReleaseTags) ==
  LET omni(a, b) == byPriority(a, b, cachedIds, hasReleaseTags)
      sorted == sort(scoredResults, byScore)
  IN  IF isOmni THEN sort(sorted, omni) ELSE sorted

\* const subtitles = scoredResults.slice(0, 10).map(...) (line 519-547); of an
\* entry the id, the format and the cached mark of its label are kept
MAX_SUBTITLES == 10
siteEntries(scoredResults, isOmni, cachedIds) ==
  [k \in 1..Min(MAX_SUBTITLES, Len(scoredResults)) |->
     [id |-> <<"titulky", scoredResults[k].sub.id>>,
      cached |-> scoredResults[k].sub.id \in cachedIds,
      SubFormat |-> IF isOmni THEN "vtt" ELSE "srt"]]

\* the filtered results that are ordered: up to MaxResults results with
\* distinct ids, versions with one, two and no release tag or none at all
MaxResults == 3
ResultIds == {"101", "102", "103"}
Versions == {<<>>, <<"1", "0", "8", "0", "p">>, <<"7", "2", "0", "p">>,
             <<"1", "0", "8", "0", "p", ".", "B", "l", "u", "R", "a", "y">>}
FilteredResults ==
  {f \in UNION {[1..n -> [id : ResultIds, version : Versions,
                          title : {<<"F", "i", "l", "m">>}]] : n \in 0..MaxResults} :
     \A i, j \in DOMAIN f : i # j => f[i].id # f[j].id}

OrderInit ==
  /\ Quiet
  /\ \E filtered \in FilteredResults, isOmni \in BOOLEAN,
        playingFilename \in {<<>>, <<"F", "i", "l", "m", ".", "1", "0", "8", "0", "p", ".", "B", "l", "u", "R", "a", "y", ".", "x", "2", "6", "4">>},
        cachedIds \in {{}, {"102"}, {"101", "103"}} :
       call = [op |-> "order", pc |-> "score", filtered |-> filtered,
               isOmni |-> isOmni, cachedIds |-> cachedIds,
               playingTags |-> extractReleaseTags(playingFilename),
               scoredResults |-> <<>>, subtitles |-> <<>>]

\* line 492-499
ScoreResults ==
  /\ call.op = "order" /\ call.pc = "score"
  /\ call' = [call EXCEPT !.pc = "sort",
                !.scoredResults = scoreResults(call.filtered, call.playingTags)]
  /\ UNCHANGED serverVars

\* line 500-516
SortResults ==
  /\ call.op = "order" /\ call.pc = "sort"
  /\ call' = [call EXCEPT !.pc = "list",
                !.scoredResults = sortResults(call.scoredResults, call.isOmni,
                                              call.cachedIds,
                                              Len(call.playingTags) > 0)]
  /\ UNCHANGED serverVars

\* line 518-547
ListResults ==
  /\ call.op = "order" /\ call.pc = "list"
  /\ call' = [call EXCEPT !.pc = "done",
                !.subtitles = siteEntries(call.scoredResults, call.isOmni,
                                          call.cachedIds)]
  /\ UNCHANGED serverVars

OrderNext == ScoreResults \/ SortResults \/ ListResults

OrderSpec == OrderInit /\ [][OrderNext]_vars

\* ------------------------- the subtitle-search route (server.js 354-594)
\* the request: a movie tt1 or the episode tt1:1:2 of a series
RouteRequests ==
  {[type |-> "movie", parts |-> <<"tt1">>], [type |-> "series", parts |-> <<"tt1", "1", "2">>]}

\* `S${season padded}E${episode padded}` (line 373-376); the id's numbers are
\* plain digits, which parseInt and String leave as they are
epStr(parts) ==
  <<"S">> \o padStart2(IF Len(parts) >= 2 THEN <<parts[2]>> ELSE <<"1">>)
  \o <<"E">> \o padStart2(IF Len(parts) >= 3 THEN <<parts[3]>> ELSE <<"1">>)

\* [...new Set(searchTitles)].filter(t => t && t.length > 1) (line 401)
uniqueTitles(searchTitles) ==
  LET first(i) == (\A j \in 1..(i - 1) : searchTitles[j] # searchTitles[i])
                  /\ Len(searchTitles[i]) > 1
      at == SelectSeq([i \in DOMAIN searchTitles |-> i], first)
  IN  [k \in DOMAIN at |-> searchTitles[at[k]]]

\* line 368-398: the candidate titles of a series episode and of a movie
searchTitlesOf(request, meta) ==
  LET name == meta.name
      other(alias) == alias # <<>> /\ alias # name
      aliases == SelectSeq(meta.aliases, other)
      named == IF name # <<>> THEN <<name>> ELSE <<>>
      cleaned == trim(dropEndPunctuation(name))
      spaces == Cardinality({i \in DOMAIN name : name[i] = " "})
  IN  IF request.type = "series"
        THEN [k \in DOMAIN named |-> name \o <<" ">> \o epStr(request.parts)]
             \o [k \in DOMAIN aliases |-> aliases[k] \o <<" ">> \o epStr(request.parts)]
             \o named
        ELSE named \o aliases
             \o (IF cleaned # <<>> /\ cleaned # name THEN <<cleaned>> ELSE <<>>)
             \o (IF spaces + 1 <= 3 /\ Len(name) > 2 THEN <<name>> ELSE <<>>)

\* what Cinemeta knows of tt1: nothing, or a name and aliases
NoMeta == [found |-> FALSE, name |-> <<>>, aliases |-> <<>>]
Metas ==
  {NoMeta}
  \cup [found : {TRUE}, name : {<<>>, <<"x">>, <<"U", "p">>, <<"U", "p", "!">>},
        aliases : {<<>>, <<<<"I", "t">>>>}]

\* what the site lists: nothing, rows for queries that begin with "up", or
\* rows for queries that begin with "it"
UpResults ==
  << [id |-> "101", title |-> <<"U", "p">>, linkFile |-> <<"U", "p", "-", "2", "0", "0", "9">>,
      version |-> <<"7", "2", "0", "p">>],
     [id |-> "102", title |-> <<"U", "p">>, linkFile |-> <<"u", "p", "-", "1", "0", "2">>,
      version |-> <<"1", "0", "8", "0", "p", ".", "B", "l", "u", "R", "a", "y">>],
     [id |-> "103", title |-> <<"U", "p", "s", "i", "d", "e">>,
      linkFile |-> <<"u", "p", "s", "i", "d", "e", "-", "1", "0", "3">>, version |-> <<>>] >>
ItResults ==
  << [id |-> "104", title |-> <<"I", "t">>, linkFile |-> <<"i", "t", "-", "1", "0", "4">>,
      version |-> <<>>] >>
siteAnswer(site, title) ==
  IF site = "up" /\ startsWith(toLowerCase(title), <<"u", "p">>) THEN UpResults
  ELSE IF site = "it" /\ startsWith(toLowerCase(title), <<"i", "t">>) THEN ItResults
  ELSE <<>>

\* the folder of a custom object's key (custom/<imdbId>/<file>)
folderOf(key) == IF key = CustomKey THEN "tt1" ELSE ""

\* line 550-551: the folder custom subtitles are listed from
customImdbId(request) ==
  IF request.type = "series" THEN "tt1-1-2" ELSE request.parts[1]

\* r2GetCustomSubs (line 138-169): [] without a bucket and on a failed
\* listing, else the subtitle objects under the prefix; the bucket holds at
\* most one
r2GetCustomSubs(bucket, configured, imdbId, err) ==
  LET keys == {k \in DOMAIN bucket :
                 /\ isCustomKey(k) /\ folderOf(k) = imdbId
                 /\ k[2][2] \in {"srt", "ssa", "ass", "sub", "vtt"}}
  IN  IF ~configured \/ err \/ keys = {} THEN <<>>
      ELSE <<[key |-> CHOOSE k \in keys : TRUE]>>

\* line 553-585: the entry of a custom subtitle
customEntry(cs, isOmni) ==
  LET ext == cs.key[2][2]
      isAssType == ext \in {"ass", "ssa"}
  IN  [id |-> <<"custom", cs.key>>,
       SubFormat |-> IF isOmni /\ isAssType THEN ext
                     ELSE IF isAssType \/ ext = "vtt" THEN "vtt" ELSE "srt"]

\* subtitles.unshift(...) for each custom subtitle in turn
RECURSIVE unshiftAll(_, _, _)
unshiftAll(subtitles, customSubs, isOmni) ==
  IF customSubs = <<>> THEN subtitles
  ELSE unshiftAll(<<customEntry(Head(customSubs), isOmni)>> \o subtitles,
                  Tail(customSubs), isOmni)

\* res.json({ subtitles }) and the handler ends
respondList(c, subtitles) ==
  [c EXCEPT !.pc = "done", !.response = [status |-> 200, subtitles |-> subtitles]]

\* line 404-547 after search() returned: the results are filtered by title,
\* scored, ordered and listed; the config carries no rdToken
afterSearch(c, results, cachedIds) ==
  LET keep(sub) == titleFilter(c.meta.name, sub)
      playingTags == extractReleaseTags(c.playingFilename)
      scoredResults == sortResults(scoreResults(SelectSeq(results, keep), playingTags),
                                   c.isOmni, cachedIds, Len(playingTags) > 0)
  IN  [c EXCEPT !.pc = "custom", !.result = results,
                !.emptySearch = (results = <<>>),
                !.subtitles = siteEntries(scoredResults, c.isOmni, cachedIds)]

\* search()'s loop from position i on (titulkyClient.js line 95-102), and the
\* handler's continuation when it returns []
routeLoop(c, i, cachedIds) ==
  LET d == searchLoop(c, i)
  IN  IF d.pc = "returned" THEN afterSearch(d, <<>>, cachedIds) ELSE d

\* the catch of line 589-593
routeCatch(c) == respondList([c EXCEPT !.thrown = TRUE], <<>>)

\* the session cached for the user when the request arrives: none, one logged
\* in just now, one logged in more than 30 minutes ago, one that failed to
\* log in again
CachedClients ==
  {<<>>, <<[newClient("u") EXCEPT !.loggedIn = TRUE, !.loginAge = 0]>>,
   <<[newClient("u") EXCEPT !.loggedIn = TRUE]>>, <<newClient("u")>>}

RouteInit ==
  /\ ServerInit
  /\ \A r \in Reqs : rq[r].cfg.ok /\ rq[r].link = "film-101"
  /\ \E request \in RouteRequests, isOmni \in BOOLEAN, cached \in CachedClients,
        meta \in Metas, site \in {"nothing", "up", "it"},
        playingFilename \in {<<>>, <<"U", "p", ".", "1", "0", "8", "0", "p", ".", "m", "k", "v">>} :
       call = [op |-> "route", pc |-> "start", request |-> request, isOmni |-> isOmni,
               cached |-> cached, client |-> newClient("u"), meta |-> meta,
               site |-> site, playingFilename |-> playingFilename,
               titles |-> <<>>, i |-> 0, sent |-> <<>>, result |-> <<>>,
               subtitles |-> <<>>, loginFailed |-> FALSE, noMeta |-> FALSE,
               emptySearch |-> FALSE, thrown |-> FALSE,
               response |-> [status |-> 0, subtitles |-> <<>>]]

\* line 355-363 and getClient (262-268): a cached session flagged logged in is
\* taken, else a new one logs in
RouteGetClient ==
  /\ call.op = "route" /\ call.pc = "start"
  /\ call' = IF call.cached # <<>> /\ call.cached[1].loggedIn
               THEN [call EXCEPT !.pc = "meta", !.client = call.cached[1]]
               ELSE [call EXCEPT !.pc = "gc_login", !.client = newClient("u")]
  /\ UNCHANGED serverVars

\* getClient's login is answered (line 269-274, 363)
RouteGcLogin(outcome) ==
  /\ call.op = "route" /\ call.pc = "gc_login"
  /\ LET client == doLoginResult(call.client, outcome) IN
     call' = IF outcome = "throw" THEN routeCatch(call)
             ELSE IF outcome = "bad"
               THEN respondList([call EXCEPT !.client = client, !.loginFailed = TRUE], <<>>)
             ELSE [call EXCEPT !.pc = "meta", !.client = client, !.cached = <<client>>]
  /\ UNCHANGED serverVars

\* Cinemeta answers getMeta (line 279-290, 366-401), and search() starts with
\* login() (titulkyClient.js line 93, 59)
RouteMeta(err) ==
  /\ call.op = "route" /\ call.pc = "meta"
  /\ call' =
       IF err \/ ~call.meta.found THEN respondList([call EXCEPT !.noMeta = TRUE], <<>>)
       ELSE LET c == [call EXCEPT
                        !.titles = uniqueTitles(searchTitlesOf(call.request, call.meta))]
            IN  IF loginFresh(c.client) THEN routeLoop(c, 0, r2CachedIds)
                ELSE [c EXCEPT !.pc = "login"]
  /\ UNCHANGED serverVars

\* search()'s login is answered: its result is not looked at (line 93)
RouteSearchLogin(outcome) ==
  /\ call.op = "route" /\ call.pc = "login"
  /\ call' =
       IF outcome = "throw" THEN routeCatch(call)
       ELSE routeLoop([call EXCEPT !.client = doLoginResult(@, outcome),
                                   !.loginFailed = (outcome = "bad")],
                      0, r2CachedIds)
  /\ UNCHANGED serverVars

\* the site answers the query of candidate call.i (titulkyClient.js line
\* 98-99), and the handler goes on when search() returns
RouteSearchResponse(thrown) ==
  /\ call.op = "route" /\ call.pc = "query"
  /\ LET results == siteAnswer(call.site, call.titles[call.i]) IN
     call' = IF thrown THEN routeCatch(call)
             ELSE IF Len(results) > 0 THEN afterSearch(call, results, r2CachedIds)
             ELSE routeLoop(call, call.i, r2CachedIds)
  /\ UNCHANGED serverVars

\* r2GetCustomSubs returns (line 549-588)
RouteCustom(err) ==
  /\ call.op = "route" /\ call.pc = "custom"
  /\ call' = respondList(call,
               unshiftAll(call.subtitles,
                          r2GetCustomSubs(r2, s3, customImdbId(call.request), err),
                          call.isOmni))
  /\ UNCHANGED serverVars

RouteNext ==
  \/ RouteGetClient
  \/ \E outcome \in {"ok", "bad", "throw"} : RouteGcLogin(outcome)
  \/ \E err \in BOOLEAN : RouteMeta(err)
  \/ \E outcome \in {"ok", "bad", "throw"} : RouteSearchLogin(outcome)
  \/ \E thrown \in BOOLEAN : RouteSearchResponse(thrown)
  \/ \E err \in BOOLEAN : RouteCustom(err)

RouteSpec == RouteInit /\ [][RouteNext]_vars

\* --------------------- parsing a result page (titulkyClient.js 119-224)
\* \w, and the characters of a link slug [\w.+-]
WordChars == InSeq(UpperCase) \cup InSeq(LowerCase) \cup Digits \cup {"_"}
SlugChars == WordChars \cup {".", "+", "-"}

least(ps) == IF ps = {} THEN 0 ELSE CHOOSE p \in ps : \A k \in ps : p <= k
greatest(ps) == IF ps = {} THEN 0 ELSE CHOOSE p \in ps : \A k \in ps : p >= k

\* p stands in s at position j; the first place from i on where it does, or 0
startsAt(s, p, j) ==
  j >= 1 /\ j + Len(p) - 1 <= Len(s) /\ SubSeq(s, j, j + Len(p) - 1) = p
findFrom(s, p, i) == least({j \in i..Len(s) : startsAt(s, p, j)})

\* the first position from i on that holds none of the characters
runEnd(s, chars, i) ==
  LET ps == {j \in i..Len(s) : s[j] \notin chars}
  IN  IF ps = {} THEN Len(s) + 1 ELSE least(ps)

\* he.decode, of the entities the one that occurs
heDecode(s) == replaceAll(s, <<"&", "a", "m", "p", ";">>, <<"&">>, 1)

\* /href="\/?([\w][\w.+-]*-(\d{3,}))\.htm"/i at position h (line 146, 201);
\* low is s in lower case. The value runs to the closing quote, ends with
\* .htm, and before that with a dash and three or more digits, the id
NoHref == [ok |-> FALSE, linkFile |-> <<>>, id |-> <<>>]
hrefAt(s, low, h) ==
  LET p == IF h + 6 <= Len(s) /\ s[h + 6] = "/" THEN h + 7 ELSE h + 6
      e == runEnd(s, SlugChars, p)
      n == e - p - 4
      linkFile == SubSeq(s, p, p + n - 1)
      d == greatest({k \in 1..n : linkFile[k] = "-"})
  IN  IF /\ startsAt(low, <<"h", "r", "e", "f", "=", "\"">>, h)
         /\ e <= Len(s) /\ s[e] = "\""
         /\ n >= 1 /\ SubSeq(low, p + n, e - 1) = <<".", "h", "t", "m">>
         /\ linkFile[1] \in WordChars
         /\ d > 1 /\ n - d >= 3
         /\ \A k \in (d + 1)..n : linkFile[k] \in Digits
        THEN [ok |-> TRUE, linkFile |-> linkFile, id |-> SubSeq(linkFile, d + 1, n)]
        ELSE NoHref

\* /<a[^>]+>(?:<div[^>]+>)?([^<]+)/i at position j: where the captured text
\* starts, or 0 (line 152)
titleStartAt(s, low, j) ==
  LET g == firstOf(s, ">", j + 2)
      g2 == firstOf(s, ">", g + 5)
      t == IF startsAt(low, <<"<", "d", "i", "v">>, g + 1) /\ g2 >= g + 6 THEN g2 + 1 ELSE g + 1
  IN  IF startsAt(low, <<"<", "a">>, j) /\ g >= j + 3 /\ t <= Len(s) /\ s[t] # "<"
        THEN t ELSE 0

\* /title="([^"]{3,})"/i at position t: the closing quote, or 0 (line 157)
versionEndAt(s, low, t) ==
  LET q == firstOf(s, "\"", t + 7)
  IN  IF startsAt(low, <<"t", "i", "t", "l", "e", "=", "\"">>, t) /\ q >= t + 10 THEN q ELSE 0

\* _parseTableRow (line 145-195): nothing for a row without a link, else the
\* result; of its fields id, linkFile, title and version are kept (null is
\* the empty string)
parseTableRow(row) ==
  LET low == toLowerCase(row)
      h == least({k \in DOMAIN row : hrefAt(row, low, k).ok})
      a == least({k \in DOMAIN row : titleStartAt(row, low, k) > 0})
      t == titleStartAt(row, low, a)
      v == least({k \in DOMAIN row : versionEndAt(row, low, k) > 0})
  IN  IF h = 0 THEN <<>>
      ELSE <<[id |-> hrefAt(row, low, h).id,
              linkFile |-> hrefAt(row, low, h).linkFile,
              title |-> IF a = 0 THEN hrefAt(row, low, h).linkFile
                        ELSE heDecode(trim(SubSeq(row, t,
                               IF firstOf(row, "<", t) = 0 THEN Len(row)
                               ELSE firstOf(row, "<", t) - 1))),
              version |-> IF v = 0 THEN <<>>
                          ELSE heDecode(SubSeq(row, v + 7, versionEndAt(row, low, v) - 1))]>>

\* /<tr\s+class="r[^"]*"[^>]*>([\s\S]*?)<\/tr>/gi at position j (line 123):
\* where the row's text starts and where its </tr> stands, or 0
rowAt(s, low, j) ==
  LET w == runEnd(s, Whitespace, j + 3)
      q == firstOf(s, "\"", w + 8)
      g == IF q = 0 THEN 0 ELSE firstOf(s, ">", q + 1)
      e == IF g = 0 THEN 0 ELSE findFrom(low, <<"<", "/", "t", "r", ">">>, g + 1)
  IN  IF startsAt(low, <<"<", "t", "r">>, j) /\ w > j + 3 /\ startsAt(low, <<"c", "l", "a", "s", "s", "=", "\"", "r">>, w) /\ e > 0
        THEN [from |-> g + 1, end |-> e] ELSE [from |-> 0, end |-> 0]

\* the loop of line 125-130 from position i on
RECURSIVE parseRows(_, _, _)
parseRows(s, low, i) ==
  LET j == least({k \in i..Len(s) : rowAt(s, low, k).end > 0})
      m == rowAt(s, low, j)
  IN  IF j = 0 THEN <<>>
      ELSE parseTableRow(SubSeq(s, m.from, m.end - 1)) \o parseRows(s, low, m.end + 5)

\* m[3].replace(/<[^>]+>/g, '') (line 206), from position i on
RECURSIVE stripTags(_, _)
stripTags(s, i) ==
  LET k == least({p \in i..Len(s) : s[p] = "<" /\ firstOf(s, ">", p + 1) >= p + 2})
  IN  IF k = 0 THEN SubSeq(s, i, Len(s))
      ELSE SubSeq(s, i, k - 1) \o stripTags(s, firstOf(s, ">", k + 1) + 1)

\* linkFile.replace(/-\d+$/, '').replace(/-/g, ' ') (line 215)
slugTitle(linkFile) ==
  LET d == greatest({k \in DOMAIN linkFile : linkFile[k] = "-"})
      ends == d > 0 /\ d < Len(linkFile)
              /\ \A k \in (d + 1)..Len(linkFile) : linkFile[k] \in Digits
      cut == IF ends THEN SubSeq(linkFile, 1, d - 1) ELSE linkFile
  IN  [k \in DOMAIN cut |-> IF cut[k] = "-" THEN " " ELSE cut[k]]

\* the words of line 210
Denylist ==
  {<<"p", "r", "e", "c", "t", "i", "-", "s", "i">>, <<"p", "o", "z", "a", "d", "a", "v", "e", "k">>, <<"i", "n", "t", "e", "r", "n", "e", "t", "o", "v", "a">>, <<"p", "o", "d", "i", "v", "e", "j">>, <<"n", "a", "p", "o", "v", "e", "d", "a">>,
   <<"f", "o", "r", "u", "m">>, <<"p", "r", "i", "s", "p", "e", "v", "e", "k">>, <<"r", "e", "k", "l", "a", "m", "a">>}

\* a test that tells lower case from upper case
denylistedAsWritten(linkFile) == \E w \in Denylist : includes(linkFile, w)

\* the test of line 210, which ignores case
denylisted(linkFile) == \E w \in Denylist : includes(toLowerCase(linkFile), w)

\* the anchor pattern of line 201 at position j: the last href of the tag that
\* has the shape, the anchor's text and the position after its </a>
anchorAt(s, low, j) ==
  LET w == runEnd(s, Whitespace, j + 2)
      g == firstOf(s, ">", w)
      h == greatest({k \in w..(g - 1) : hrefAt(s, low, k).ok})
      e == IF g = 0 THEN 0 ELSE findFrom(low, <<"<", "/", "a", ">">>, g + 1)
  IN  IF startsAt(low, <<"<", "a">>, j) /\ w > j + 2 /\ h > 0 /\ e > 0
        THEN [ok |-> TRUE, href |-> hrefAt(s, low, h),
              text |-> SubSeq(s, g + 1, e - 1), next |-> e + 4]
        ELSE [ok |-> FALSE, href |-> NoHref, text |-> <<>>, next |-> 0]

\* the entry of line 213-220
linkEntry(href, text) ==
  LET rawTitle == trim(stripTags(text, 1))
  IN  [id |-> href.id, linkFile |-> href.linkFile,
       title |-> IF heDecode(rawTitle) # <<>> THEN heDecode(rawTitle)
                 ELSE slugTitle(href.linkFile),
       version |-> <<>>]

\* the loop of line 203-221 from position i on; seen holds the ids taken
RECURSIVE parseLinks(_, _, _, _)
parseLinks(s, low, i, seen) ==
  LET j == least({k \in i..Len(s) : anchorAt(s, low, k).ok})
      m == anchorAt(s, low, j)
  IN  IF j = 0 THEN <<>>
      ELSE IF m.href.id \in seen \/ denylisted(m.href.linkFile)
        THEN parseLinks(s, low, m.next, seen)
      ELSE <<linkEntry(m.href, m.text)>>
           \o parseLinks(s, low, m.next, seen \cup {m.href.id})

\* _parseLinkBased (line 197-224)
parseLinkBased(content) == parseLinks(content, toLowerCase(content), 1, {})

\* a parser that adds what the links give to what the rows gave
parseSearchResultsBoth(rows, content) == rows \o parseLinkBased(content)

\* line 132-143 of _parseSearchResults: the rows' results, or the links' when
\* the rows gave none
parseSearchResults(rows, content) ==
  IF Len(rows) = 0 THEN parseLinkBased(content) ELSE rows

\* the pieces result pages are made of: result rows with a link, in lower and
\* in upper case; a row whose link has a two-digit number; a header row with
\* a link; anchors outside rows, two of them for id 101, one denylisted for
\* id 101, one never closed
RowUp ==
  <<"<", "t", "r", " ", "c", "l", "a", "s", "s", "=", "\"", "r", "1", "\"",
    ">", "<", "t", "d", ">", "<", "a", " ", "h", "r", "e", "f", "=", "\"",
    "/", "U", "p", "-", "2", "0", "0", "9", "-", "1", "0", "1", ".", "h", "t",
    "m", "\"", " ", "t", "i", "t", "l", "e", "=", "\"", "U", "p", ".", "1",
    "0", "8", "0", "p", "\"", ">", "U", "p", " ", "&", "a", "m", "p", ";",
    " ", "C", "o", " ", "<", "/", "a", ">", "<", "/", "t", "d", ">", "<", "/",
    "t", "r", ">">>
RowUpper ==
  <<"<", "T", "R", " ", " ", "C", "L", "A", "S", "S", "=", "\"", "r", "2",
    "\"", " ", "i", "d", "=", "\"", "x", "\"", ">", "<", "t", "d", ">", "<",
    "A", " ", "H", "R", "E", "F", "=", "\"", "U", "p", "-", "1", "0", "2",
    ".", "H", "T", "M", "\"", ">", "<", "b", ">", "U", "p", "<", "/", "b",
    ">", "<", "/", "A", ">", "<", "/", "t", "d", ">", "<", "/", "T", "R", ">">>
RowNoLink ==
  <<"<", "t", "r", " ", "c", "l", "a", "s", "s", "=", "\"", "r", "1", "\"",
    ">", "<", "t", "d", ">", "<", "a", " ", "h", "r", "e", "f", "=", "\"",
    "/", "U", "p", "-", "1", "2", ".", "h", "t", "m", "\"", ">", "U", "p",
    "<", "/", "a", ">", "<", "/", "t", "d", ">", "<", "/", "t", "r", ">">>
RowHead ==
  <<"<", "t", "r", " ", "c", "l", "a", "s", "s", "=", "\"", "h", "e", "a",
    "d", "\"", ">", "<", "t", "d", ">", "<", "a", " ", "h", "r", "e", "f",
    "=", "\"", "/", "T", "o", "p", "-", "5", "5", "5", ".", "h", "t", "m",
    "\"", ">", "T", "o", "p", "<", "/", "a", ">", "<", "/", "t", "d", ">",
    "<", "/", "t", "r", ">">>
LinkUp ==
  <<"<", "a", " ", "h", "r", "e", "f", "=", "\"", "/", "U", "p", "-", "2",
    "0", "0", "9", "-", "1", "0", "1", ".", "h", "t", "m", "\"", ">", "U",
    "p", "<", "/", "a", ">">>
LinkUpAgain ==
  <<"<", "a", " ", "c", "l", "a", "s", "s", "=", "\"", "x", "\"", " ", "h",
    "r", "e", "f", "=", "\"", "U", "p", "-", "a", "g", "a", "i", "n", "-",
    "1", "0", "1", ".", "h", "t", "m", "\"", ">", "<", "b", ">", "<", "/",
    "b", ">", "<", "/", "a", ">">>
LinkForum ==
  <<"<", "a", " ", "h", "r", "e", "f", "=", "\"", "/", "F", "o", "r", "u",
    "m", "-", "x", "-", "1", "0", "1", ".", "h", "t", "m", "\"", ">", "F",
    "<", "/", "a", ">">>
LinkOpen ==
  <<"<", "a", " ", "h", "r", "e", "f", "=", "\"", "/", "I", "t", "-", "1",
    "0", "4", ".", "h", "t", "m", "\"", ">", "I", "t">>
MaxParts == 3
PageParts ==
  {RowUp, RowUpper, RowNoLink, RowHead, LinkUp, LinkUpAgain, LinkForum, LinkOpen}
ResultPages == UNION {[1..n -> PageParts] : n \in 0..MaxParts}

ParseInit ==
  /\ Quiet
  /\ \E parts \in ResultPages :
       call = [op |-> "parse", pc |-> "rows", parts |-> parts, content |-> Flat(parts),
               rows |-> <<>>, fallback |-> FALSE, result |-> <<>>]

\* line 120-130: the row loop
ParseRows ==
  /\ call.op = "parse" /\ call.pc = "rows"
  /\ call' = [call EXCEPT !.pc = "fallback",
                !.rows = parseRows(call.content, toLowerCase(call.content), 1)]
  /\ UNCHANGED serverVars

\* line 132-143: the fallback, and the return
ParseReturn ==
  /\ call.op = "parse" /\ call.pc = "fallback"
  /\ call' = [call EXCEPT !.pc = "done",
                !.fallback = (Len(call.rows) = 0),
                !.result = parseSearchResults(call.rows, call.content)]
  /\ UNCHANGED serverVars

ParseNext == ParseRows \/ ParseReturn

ParseSpec == ParseInit /\ [][ParseNext]_vars

\* ------------------------ downloadSubtitle (titulkyClient.js 228-302)
\* the download-resolution pages: with or without the CAPTCHA marker, with a
\* countdown of 0 (none) up to MaxWait seconds, with or without the anchor
DownloadPages == [captcha : BOOLEAN, countdown : 0..MaxWait, link : BOOLEAN]

\* the clock, in seconds, stops at MaxClock
MaxClock == 4

\* what the archive request is answered with: no data, or data of a length,
\* which AdmZip reads as an archive or throws on
ZIP_MIN_LENGTH == 50
ZipAnswers ==
  {[present |-> FALSE, length |-> 0, readable |-> FALSE, archive |-> <<>>]}
  \cup [present : {TRUE}, length : {0, 49}, readable : {FALSE}, archive : {<<>>}]
  \cup [present : {TRUE}, length : {50, 51}, readable : {FALSE}, archive : {<<>>}]
  \cup [present : {TRUE}, length : {50, 51}, readable : {TRUE}, archive : Archives]

\* a test that turns away 50 bytes, too
tooShortAtMost(data) == ~data.present \/ data.length <= ZIP_MIN_LENGTH

\* !zipRes.data || zipRes.data.length < 50 (line 272)
tooShort(data) == ~data.present \/ data.length < ZIP_MIN_LENGTH

\* a timer counted from the moment the page was asked for
timerDueFromRequest(askedAt, receivedAt, waitTime) == askedAt + waitTime

\* setTimeout(r, waitTime * 1000), called when the page has been received
\* (line 263): the second it is due
timerDue(askedAt, receivedAt, waitTime) == receivedAt + waitTime

\* what downloadSubtitle returns: null, or the files _extractSubtitles found
Null == [null |-> TRUE, files |-> <<>>]
Files(files) == [null |-> FALSE, files |-> files]

\* _extractSubtitles (line 280-302): null when AdmZip throws
extractOrNull(data) ==
  IF data.readable THEN Files(extractSubtitles(data.archive)) ELSE Null

DownloadInit ==
  /\ Quiet
  /\ \E page \in DownloadPages :
       call = [op |-> "download", pc |-> "login", page |-> page, now |-> 0,
               askedAt |-> 0, received |-> FALSE, receivedAt |-> 0, due |-> 0,
               zipAt |-> 0, zipSent |-> FALSE, answered |-> FALSE, data |-> [present |-> FALSE, length |-> 0,
                                            readable |-> FALSE, archive |-> <<>>],
               unpacked |-> FALSE, thrown |-> FALSE, result |-> Null]

\* a second passes
Second ==
  /\ call.op = "download" /\ call.pc # "done"
  /\ call.now < MaxClock
  /\ call' = [call EXCEPT !.now = @ + 1]
  /\ UNCHANGED serverVars

\* line 229-237: login() has completed, its result is not looked at; the page
\* is asked for
DownloadLogin(outcome) ==
  /\ call.op = "download" /\ call.pc = "login"
  /\ call' = IF outcome = "throw" THEN [call EXCEPT !.pc = "done", !.thrown = TRUE]
             ELSE [call EXCEPT !.pc = "page", !.askedAt = call.now]
  /\ UNCHANGED serverVars

\* line 237-270: the page is received
DownloadPage(thrown) ==
  /\ call.op = "download" /\ call.pc = "page"
  /\ call' =
       IF thrown THEN [call EXCEPT !.pc = "done", !.thrown = TRUE]
       ELSE IF captchaFound(call.page) \/ ~call.page.link
         THEN [call EXCEPT !.pc = "done", !.received = TRUE, !.receivedAt = call.now,
                 !.result = Null]
       ELSE IF call.page.countdown > 0
         THEN [call EXCEPT !.pc = "wait", !.received = TRUE, !.receivedAt = call.now,
                 !.due = timerDue(call.askedAt, call.now, call.page.countdown)]
       ELSE [call EXCEPT !.pc = "zip", !.received = TRUE, !.receivedAt = call.now,
               !.zipSent = TRUE, !.zipAt = call.now]
  /\ UNCHANGED serverVars

\* line 263-270: the timer fires, not before it is due; the archive is asked
\* for
DownloadTimer ==
  /\ call.op = "download" /\ call.pc = "wait"
  /\ call.now >= call.due
  /\ call' = [call EXCEPT !.pc = "zip", !.zipSent = TRUE, !.zipAt = call.now]
  /\ UNCHANGED serverVars

\* line 267-277: the archive request is answered
DownloadZip(thrown, data) ==
  /\ call.op = "download" /\ call.pc = "zip"
  /\ call' =
       IF thrown THEN [call EXCEPT !.pc = "done", !.thrown = TRUE]
       ELSE IF tooShort(data)
         THEN [call EXCEPT !.pc = "done", !.answered = TRUE, !.data = data,
                 !.result = Null]
       ELSE [call EXCEPT !.pc = "done", !.answered = TRUE, !.data = data,
               !.unpacked = TRUE, !.result = extractOrNull(data)]
  /\ UNCHANGED serverVars

DownloadNext ==
  \/ Second
  \/ \E outcome \in {"true", "false", "throw"} : DownloadLogin(outcome)
  \/ \E thrown \in BOOLEAN : DownloadPage(thrown)
  \/ DownloadTimer
  \/ \E thrown \in BOOLEAN, data \in ZipAnswers : DownloadZip(thrown, data)

DownloadSpec == DownloadInit /\ [][DownloadNext]_vars

\* --------------------- _extractSubtitles (titulkyClient.js 280-302)
\* the names of archive entries: subtitle files, another file, a name
\* without a dot, a directory, and a file in a directory with a dot
NameSrt == <<"f", "i", "l", "m", ".", "s", "r", "t">>
NameSrtUpper == <<"F", "i", "l", "m", ".", "C", "Z", ".", "S", "R", "T">>
NameAss == <<"f", "i", "l", "m", ".", "a", "s", "s">>
NameNfo == <<"r", "e", "a", "d", "m", "e", ".", "n", "f", "o">>
NameBare == <<"s", "u", "b">>
NameDir == <<"e", "x", "t", "r", "a", "s", ".", "s", "r", "t", "/">>
NameInDir == <<"c", "d", "1", ".", "v", "2", "/", "n", "o", "t", "e", "s">>
EntryNames == {NameSrt, NameSrtUpper, NameAss, NameNfo, NameBare, NameDir, NameInDir}

\* the archives have up to MaxEntries entries
MaxEntries == 3

\* s.endsWith(p)
endsWith(s, p) == Len(p) <= Len(s) /\ SubSeq(s, Len(s) - Len(p) + 1, Len(s)) = p

\* an entry as AdmZip gives it: a directory's name ends with a slash
zipEntry(name) == [entryName |-> name, isDirectory |-> endsWith(name, <<"/">>)]

\* entryName.split('.').pop(): what follows the last dot, the whole name when
\* it has no dot
lastPart(name) ==
  SubSeq(name, greatest({p \in DOMAIN name : name[p] = "."}) + 1, Len(name))

\* line 281
exts == {<<".", "s", "r", "t">>, <<".", "s", "u", "b">>, <<".", "t", "x", "t">>,
         <<".", "s", "m", "i">>, <<".", "s", "s", "a">>, <<".", "a", "s", "s">>}

\* line 286
extOf(entryName) == <<".">> \o toLowerCase(lastPart(entryName))

\* line 285-290: the loop over zip.getEntries()
pushEntries(entries) ==
  LET kept == SelectSeq(entries,
                LAMBDA entry : extOf(entry.entryName) \in exts /\ ~entry.isDirectory)
  IN  [k \in DOMAIN kept |-> [filename |-> kept[k].entryName]]

\* a comparator that tells no file from another
bySrtNever(a, b) == 0

\* the comparator of line 291-295
bySrt(a, b) ==
  LET as == IF endsWith(toLowerCase(a.filename), <<".", "s", "r", "t">>) THEN 0 ELSE 1
      bs == IF endsWith(toLowerCase(b.filename), <<".", "s", "r", "t">>) THEN 0 ELSE 1
  IN  as - bs

RECURSIVE EntryLists(_)
EntryLists(n) ==
  IF n = 0 THEN {<<>>}
  ELSE EntryLists(n - 1)
       \cup {Append(l, zipEntry(name)) : l \in {x \in EntryLists(n - 1) : Len(x) = n - 1},
                                         name \in EntryNames}

ExtractInit ==
  /\ Quiet
  /\ \E entries \in EntryLists(MaxEntries) :
       call = [op |-> "extract", pc |-> "loop", entries |-> entries,
               results |-> <<>>, served |-> <<>>]

\* line 283-290
ExtractLoop ==
  /\ call.op = "extract" /\ call.pc = "loop"
  /\ call' = [call EXCEPT !.pc = "sort", !.results = pushEntries(call.entries)]
  /\ UNCHANGED serverVars

\* line 291-297
ExtractSort ==
  /\ call.op = "extract" /\ call.pc = "sort"
  /\ call' = [call EXCEPT !.pc = "returned", !.results = sort(call.results, bySrt)]
  /\ UNCHANGED serverVars

\* server.js line 793-804: no files, or files[0]
ServeFirst ==
  /\ call.op = "extract" /\ call.pc = "returned"
  /\ call' = [call EXCEPT !.pc = "done",
                !.served = IF Len(call.results) = 0 THEN <<>>
                           ELSE <<call.results[1]>>]
  /\ UNCHANGED serverVars

ExtractNext == ExtractLoop \/ ExtractSort \/ ServeFirst

ExtractSpec == ExtractInit /\ [][ExtractNext]_vars

\* ------------------------- the session's cookies (titulkyClient.js 17-54)
\* Set-Cookie header lines: two values of one cookie, a second cookie, a
\* cookie emptied by the site, and a line whose pair has no equals sign
SetSidA == <<"s", "i", "d", "=", "a", ";", " ", "P", "a", "t", "h", "=", "/">>
SetSidB == <<"s", "i", "d", "=", "b">>
SetLang == <<"l", "a", "n", "g", "=", "c", "s", ";", " ", "H", "t", "t", "p", "O", "n", "l", "y">>
SetSidGone == <<"s", "i", "d", "=", ";", " ", "M", "a", "x", "-", "A", "g", "e", "=", "0">>
SetFlag == <<"f", "l", "a", "g", ";", " ", "P", "a", "t", "h", "=", "/">>
SetCookieLines == {SetSidA, SetSidB, SetLang, SetSidGone, SetFlag}

\* a response carries up to two lines, a session sends up to MaxSends
\* requests
MaxSends == 2
\* maxRedirects: 5 (line 44)
maxRedirects == 5

SetCookieHeaders ==
  {<<>>} \cup {<<a>> : a \in SetCookieLines}
         \cup {<<a, b>> : a, b \in SetCookieLines}

\* c.match(/^([^=]+)=([^;]*)/) (line 22): the name up to the first equals
\* sign, which is not the first character, the value up to the next semicolon
NoCookie == [matched |-> FALSE, name |-> <<>>, value |-> <<>>]
matchCookie(c) ==
  LET p == firstOf(c, "=", 1)
      q == firstOf(c, ";", p + 1)
  IN  IF p <= 1 THEN NoCookie
      ELSE [matched |-> TRUE, name |-> trim(SubSeq(c, 1, p - 1)),
            value |-> trim(SubSeq(c, p + 1, IF q = 0 THEN Len(c) ELSE q - 1))]

\* this.cookies[name] = value: an own property keeps its place, a new one is
\* added last
assignCookie(cookies, name, value) ==
  IF \E k \in DOMAIN cookies : cookies[k].name = name
    THEN [k \in DOMAIN cookies |->
            IF cookies[k].name = name THEN [name |-> name, value |-> value]
            ELSE cookies[k]]
    ELSE Append(cookies, [name |-> name, value |-> value])

\* _parseCookiesFromHeaders (line 17-25), the lines of the header in order
RECURSIVE parseCookiesFromHeaders(_, _)
parseCookiesFromHeaders(cookies, lines) ==
  IF lines = <<>> THEN cookies
  ELSE LET m == matchCookie(Head(lines))
       IN  parseCookiesFromHeaders(
             IF m.matched THEN assignCookie(cookies, m.name, m.value) ELSE cookies,
             Tail(lines))

\* _cookieString (line 27-29)
RECURSIVE cookieString(_)
cookieString(cookies) ==
  IF cookies = <<>> THEN <<>>
  ELSE Head(cookies).name \o <<"=">> \o Head(cookies).value
       \o (IF Len(cookies) > 1 THEN <<";", " ">> ELSE <<>>)
       \o cookieString(Tail(cookies))

\* the cookies a response sets, as the site means them: the pair before the
\* first semicolon of each line, when it has an equals sign
RECURSIVE cookiesSet(_, _)
cookiesSet(m, lines) ==
  IF lines = <<>> THEN m
  ELSE LET c == Head(lines)
           semi == firstOf(c, ";", 1)
           pair == IF semi = 0 THEN c ELSE SubSeq(c, 1, semi - 1)
           p == firstOf(pair, "=", 1)
       IN  cookiesSet(IF p <= 1 THEN m
                      ELSE MapSet(m, trim(SubSeq(pair, 1, p - 1)),
                                  trim(SubSeq(pair, p + 1, Len(pair)))),
                      Tail(lines))

CookieInit ==
  /\ Quiet
  /\ call = [op |-> "cookies", cookies |-> <<>>, flights |-> {}, sends |-> 0,
             latest |-> EmptyMap, latestFinal |-> EmptyMap, redirected |-> FALSE,
             replayed |-> TRUE]

\* _request up to `await axios(config)` (line 31-52): the Cookie header is
\* the cookie string of this moment
CookieRequest ==
  /\ call.op = "cookies" /\ call.sends < MaxSends
  /\ call' = [call EXCEPT
       !.sends = @ + 1,
       !.flights = @ \cup {[id |-> call.sends + 1, redirects |-> 0,
                            Cookie |-> cookieString(call.cookies)]}]
  /\ UNCHANGED serverVars

\* axios receives a 3xx response and follows it (maxRedirects, line 44) with
\* the headers of the request, or rejects after the fifth redirect; _request
\* does not see the response
CookieRedirect(f, lines) ==
  /\ call.op = "cookies" /\ f \in call.flights
  /\ call' = [call EXCEPT
       !.flights = IF f.redirects < maxRedirects
                     THEN (@ \ {f}) \cup {[f EXCEPT !.redirects = @ + 1]}
                     ELSE @ \ {f},
       !.latest = cookiesSet(@, lines),
       !.redirected = TRUE,
       !.replayed = @ /\ (f.redirects < maxRedirects
                            => f.Cookie = cookieString(call.cookies))]
  /\ UNCHANGED serverVars

\* line 52-53: the response of axios arrives and its headers are parsed
CookieResponse(f, lines) ==
  /\ call.op = "cookies" /\ f \in call.flights
  /\ call' = [call EXCEPT
       !.flights = @ \ {f},
       !.cookies = parseCookiesFromHeaders(@, lines),
       !.latest = cookiesSet(@, lines),
       !.latestFinal = cookiesSet(@, lines)]
  /\ UNCHANGED serverVars

\* line 52: axios rejects (network error, timeout)
CookieFailure(f) ==
  /\ call.op = "cookies" /\ f \in call.flights
  /\ call' = [call EXCEPT !.flights = @ \ {f}]
  /\ UNCHANGED serverVars

CookieNext ==
  \/ CookieRequest
  \/ \E f \in call.flights, lines \in SetCookieHeaders : CookieRedirect(f, lines)
  \/ \E f \in call.flights, lines \in SetCookieHeaders : CookieResponse(f, lines)
  \/ \E f \in call.flights : CookieFailure(f)

CookieSpec == CookieInit /\ [][CookieNext]_vars

\* ------------------- the line scan of assToVtt, line by line (859-920)
\* the lines of ASS files: the headers of the styles and events sections and
\* of another section, the Format and Style lines of a style D that is white
\* and bold, the Format line of the events, and Dialogue lines with an
\* inline bold pair, with an inline colour, and with too few fields
LineStyles ==
  <<"[", "V", "4", "+", " ", "S", "t", "y", "l", "e", "s", "]">>
LineStyleFormat ==
  <<"F", "o", "r", "m", "a", "t", ":", " ", "N", "a", "m", "e", ",", " ", "P",
    "r", "i", "m", "a", "r", "y", "C", "o", "l", "o", "u", "r", ",", " ", "B",
    "o", "l", "d", ",", " ", "I", "t", "a", "l", "i", "c">>
LineStyle ==
  <<"S", "t", "y", "l", "e", ":", " ", "D", ",", "&", "H", "0", "0", "F", "F",
    "F", "F", "F", "F", ",", "-", "1", ",", "0">>
LineEvents ==
  <<"[", "E", "v", "e", "n", "t", "s", "]">>
LineEventsFormat ==
  <<"F", "o", "r", "m", "a", "t", ":", " ", "S", "t", "a", "r", "t", ",", " ",
    "E", "n", "d", ",", " ", "S", "t", "y", "l", "e", ",", " ", "T", "e", "x",
    "t">>
LineDialogueBold ==
  <<"D", "i", "a", "l", "o", "g", "u", "e", ":", " ", "0", ":", "0", "0", ":",
    "0", "1", ".", "0", "0", ",", "0", ":", "0", "0", ":", "0", "2", ".", "0",
    "0", ",", "D", ",", "{", "\\", "b", "1", "}", "A", "{", "\\", "b", "0",
    "}", ",", " ", "a">>
LineDialogueColour ==
  <<"D", "i", "a", "l", "o", "g", "u", "e", ":", " ", "0", ":", "0", "0", ":",
    "0", "3", ".", "0", "0", ",", "0", ":", "0", "0", ":", "0", "4", ".", "0",
    "0", ",", "D", ",", "{", "\\", "c", "&", "H", "0", "0", "0", "0", "F",
    "F", "&", "}", "B">>
LineDialogueShort ==
  <<"D", "i", "a", "l", "o", "g", "u", "e", ":", " ", "0", ":", "0", "0", ":",
    "0", "5", ".", "0", "0", ",", "0", ":", "0", "0", ":", "0", "6", ".", "0",
    "0">>
LineFonts ==
  <<"[", "F", "o", "n", "t", "s", "]">>
ScanTokens ==
  {LineStyles,
   LineStyleFormat,
   LineStyle,
   LineEvents,
   LineEventsFormat,
   LineDialogueBold,
   LineDialogueColour,
   LineDialogueShort,
   LineFonts}

\* a file is one of four openings followed by up to MaxLines lines
MaxLines == 3
Openings ==
  {<<>>,
   <<LineEvents, LineEventsFormat>>,
   <<LineStyles, LineStyleFormat, LineStyle>>,
   <<LineStyles, LineStyleFormat, LineStyle, LineEvents, LineEventsFormat>>}

RECURSIVE LineLists(_)
LineLists(n) ==
  IF n = 0 THEN {<<>>}
  ELSE LineLists(n - 1)
       \cup {Append(l, t) : l \in {x \in LineLists(n - 1) : Len(x) = n - 1},
                            t \in ScanTokens}

ScanInit ==
  /\ Quiet
  /\ \E opening \in Openings, rest \in LineLists(MaxLines) :
       call = [op |-> "scan", pc |-> "loop", lines |-> opening \o rest, i |-> 1,
               st |-> ScanStart, out |-> <<>>]

\* line 859-913: the body of the loop for the next line
ScanLine ==
  /\ call.op = "scan" /\ call.pc = "loop"
  /\ call.i <= Len(call.lines) /\ ~call.st.broke
  /\ call' = [call EXCEPT !.i = @ + 1, !.st = scanLine(@, call.lines[call.i])]
  /\ UNCHANGED serverVars

\* line 915-920: the loop is over, by its last line or by the break
ScanReturn ==
  /\ call.op = "scan" /\ call.pc = "loop"
  /\ call.i > Len(call.lines) \/ call.st.broke
  /\ call' = [call EXCEPT !.pc = "done", !.out = WEBVTT \o cuesOf(call.st.dialogues)]
  /\ UNCHANGED serverVars

ScanNext == ScanLine \/ ScanReturn

ScanSpec == ScanInit /\ [][ScanNext]_vars

\* ----------------------------- the watch history (server.js 94-134, 408)
\* history.slice(0, 10) (line 132)
HISTORY_LENGTH == 10

\* up to MaxCalls calls of r2AddToHistory are made for the username
MaxCalls == 3

\* a history item: the id of what was played and Date.now() (line 409-416)
Item(id, time) == [id |-> id, time |-> time]

\* the object history/<username>.json when the calls begin: none, a list of
\* three items, or a full list of ten
OldItems(n) == [k \in 1..n |-> Item(k, 0)]
StoredHistories ==
  {[exists |-> FALSE, items |-> <<>>],
   [exists |-> TRUE, items |-> OldItems(3)],
   [exists |-> TRUE, items |-> OldItems(HISTORY_LENGTH)]}

\* the ids played: the first and the last of a full list, and two new ones
PlayedIds == {1, HISTORY_LENGTH, HISTORY_LENGTH + 1, HISTORY_LENGTH + 2}

\* r2GetHistory (line 94-107): [] when the read fails or finds no object
r2GetHistory(stored, err) == IF err \/ ~stored.exists THEN <<>> ELSE stored.items

\* a list that is not cut
addToHistoryUncut(history, item) ==
  <<item>> \o SelectSeq(history, LAMBDA h : h.id # item.id)

\* line 127-132: filter, unshift, slice(0, 10)
addToHistory(history, item) ==
  LET added == <<item>> \o SelectSeq(history, LAMBDA h : h.id # item.id)
  IN  SubSeq(added, 1, Min(Len(added), HISTORY_LENGTH))

HistoryInit ==
  /\ ServerInit /\ s3 /\ r2 = EmptyMap
  /\ \A r \in Reqs : rq[r].cfg.ok /\ rq[r].link = "film-101"
  /\ \E stored \in StoredHistories :
       call = [op |-> "history", stored |-> stored, calls |-> <<>>]

\* the calls that have not ended
Running == {c \in DOMAIN call.calls : call.calls[c].pc # "done"}

\* r2AddToHistory(username, item) is called (line 408, 123-125): with an S3
\* client it sends the GetObject of r2GetHistory
HistoryAdd(id) ==
  /\ call.op = "history" /\ Len(call.calls) < MaxCalls
  /\ call' = [call EXCEPT !.calls =
       Append(@, [item |-> Item(id, Len(call.calls) + 1),
                  pc |-> IF s3 THEN "get" ELSE "done", body |-> <<>>,
                  saved |-> FALSE, read |-> FALSE, beside |-> Running])]
  /\ UNCHANGED serverVars

\* line 125-133: r2GetHistory returns; the list is rebuilt and the PutObject
\* of r2SaveHistory is sent
HistoryGetResponse(c, err) ==
  /\ call.op = "history" /\ c \in DOMAIN call.calls /\ call.calls[c].pc = "get"
  /\ call' = [call EXCEPT
       !.calls[c].pc = "save",
       !.calls[c].read = ~err /\ call.stored.exists,
       !.calls[c].body = addToHistory(r2GetHistory(call.stored, err), call.calls[c].item)]
  /\ UNCHANGED serverVars

\* line 111-120: the PutObject is answered
HistorySaveResponse(c, ok) ==
  /\ call.op = "history" /\ c \in DOMAIN call.calls /\ call.calls[c].pc = "save"
  /\ call' = [call EXCEPT
       !.calls[c].pc = "done",
       !.calls[c].saved = ok,
       !.stored = IF ok THEN [exists |-> TRUE, items |-> call.calls[c].body] ELSE @]
  /\ UNCHANGED serverVars

HistoryNext ==
  \/ \E id \in PlayedIds : HistoryAdd(id)
  \/ \E c \in 1..MaxCalls, err \in BOOLEAN : HistoryGetResponse(c, err)
  \/ \E c \in 1..MaxCalls, ok \in BOOLEAN : HistorySaveResponse(c, ok)

HistorySpec == HistoryInit /\ [][HistoryNext]_vars

\* ------------------------------------------------------------- the claims
\* the download section: from the creation of the lock to its release
Section == {"gc_login", "gc_ret", "dl_login_ret", "dl_login_wait", "dl_login",
            "dl_login_thrown", "dl_page", "dl_wait", "dl_zip"}

\* downloadSubtitle has been called and has not ended
InFetch(r) == hist[r].fetched /\ pc[r] # "done"

\* the subtitle text of a response, without the WEBVTT header
contentOf(response) == response.body[Len(response.body)]

\* C1: of two requests for the same id and link token that were being
\* handled at the same time, found the id in neither tier and both ended
\* with subtitle content, exactly one called downloadSubtitle, and both
\* answered with the same content.
C1_OneFetchForTwo ==
  \A a, b \in Reqs :
    ( /\ a < b /\ pc[a] = "done" /\ pc[b] = "done"
      /\ rq[a].sub = rq[b].sub /\ rq[a].link = rq[b].link
      /\ a \in hist[b].with
      /\ hist[a].cold /\ hist[b].cold
      /\ resp[a].kind = "sub" /\ resp[b].kind = "sub" )
    => /\ hist[a].fetched # hist[b].fetched
       /\ contentOf(resp[a]) = contentOf(resp[b])

\* C2: no two requests are inside downloadSubtitle for the same id at the
\* same time.
C2_OneFetchInFlight ==
  \A a, b \in Reqs :
    (a # b /\ rq[a].sub = rq[b].sub) => ~(InFetch(a) /\ InFetch(b))

\* C3: the request a lock entry names is inside the download section: no
\* entry is left by a request that has ended, and the map is empty when no
\* request is inside the section.
C3_LockReleased ==
  /\ \A s \in DOMAIN downloadLocks : pc[downloadLocks[s]] \in Section
  /\ (\A r \in Reqs : pc[r] \notin Section) => downloadLocks = EmptyMap

\* C3 witness: a request that created the lock has ended in the catch block,
\* and the map is empty
C3_Witness ==
  /\ \E r \in Reqs : resp[r] = errorResponse(500, "Download failed")
  /\ downloadLocks = EmptyMap

\* C4: no request is left waiting on the lock of a request whose handler has
\* ended: only the handler that made the promise can resolve it, so such a
\* waiter is never woken and never answers.
C4_WaiterWoken ==
  \A r \in Reqs : pc[r] = "lock_wait" => pc[hist[r].waitedOn] # "done"

C6_AlwaysPlayable ==
  \A r \in Reqs :
    (pc[r] = "done" /\ rq[r].cfg.ok) => resp[r].kind \in {"sub", "limit"}

\* C7 as stated: a request calls downloadSubtitle only when the durable store
\* had no object for the id when its lookup was answered.
C7_OriginOnlyWhenAbsent ==
  \A r \in Reqs : InFetch(r) => ~hist[r].r2Had

\* C7 amended: a request answered from a local entry younger than the TTL
\* has sent no GetObject and has not called downloadSubtitle; a request with
\* no such entry goes on to r2Get; and a request calls downloadSubtitle only
\* after r2Get returned null (no object, a failed read, or no S3 client).
C7_TierOrder ==
  /\ [](\A r \in Reqs :
         /\ hist[r].from = "mem" => (~hist[r].asked /\ ~hist[r].fetched)
         /\ (pc[r] \in Section \/ pc[r] \in {"lock_wait", "lock_ret"})
              => ~loc[r].r2Cached.hit
         /\ hist[r].fetched => hist[r].from \notin {"mem", "r2"})
  /\ [][\A r \in Reqs :
          (pc[r] = "idle" /\ pc'[r] # "idle" /\ rq[r].cfg.ok) =>
            LET key == cacheKey(rq[r].sub, rq[r].link) IN
            IF Has(subtitleCache, key) /\ subtitleCache[key].age < SUBTITLE_CACHE_TTL
              THEN /\ pc'[r] = "done"
                   /\ hist'[r].from = "mem"
                   /\ resp'[r] = sendSub(subtitleCache[key].content,
                                         subtitleCache[key].filename, rq[r].cfg.omni)
              ELSE /\ pc'[r] \in {"r2_get", "r2_ret"}
                   /\ hist'[r].asked = s3]_vars

\* C7 witness: one request has answered from a fresh local entry, another
\* has gone to the origin after a read of the durable store that failed
C7_Witness ==
  \E a, b \in Reqs :
    /\ hist[a].from = "mem"
    /\ hist[b].from = "origin" /\ hist[b].asked

\* C8: a response that comes from a local entry (at arrival or after the
\* wait for a lock) comes from an entry younger than the TTL.
C8_NoStaleServe ==
  [][\A r \in Reqs :
       (hist[r].from = "none" /\ hist'[r].from \in {"mem", "wait"})
         => subtitleCache[cacheKey(rq[r].sub, rq[r].link)].age < SUBTITLE_CACHE_TTL]_vars

\* a put of request r has ended and the bucket holds what it was called with
PutSucceeded(r) ==
  /\ Has(puts, r) /\ ~Has(puts', r)
  /\ Has(r2', subKey(puts[r].sub))
  /\ r2'[subKey(puts[r].sub)] = subObject(puts[r].content, puts[r].filename)

\* C9 as stated: once the put of a fetch has succeeded, the local entry of
\* the request and the object of its id hold the same content.
C9_TiersEqualAfterPut ==
  [][\A r \in Reqs :
       PutSucceeded(r) =>
         LET key == cacheKey(rq[r].sub, rq[r].link) IN
         /\ Has(subtitleCache', key)
         /\ subtitleCache'[key].content = r2'[subKey(rq[r].sub)].content]_vars

\* C9 amended: the step that ends a fetch with at least one file writes the
\* ensureUtf8 content of the first extracted file and its filename, with
\* age 0, under the request's cache key, and with an S3 client calls r2Put
\* with the id and the same content and filename; a put that ends either
\* changes nothing or leaves exactly that object under the id's key.
C9_FetchWritesBoth ==
  [][/\ \A r \in Reqs :
          (pc[r] = "dl_zip" /\ hist'[r].from = "origin") =>
            \E a \in Archives :
              LET files == extractSubtitles(a)
                  key == cacheKey(rq[r].sub, rq[r].link)
              IN /\ Len(files) >= 1
                 /\ Has(subtitleCache', key)
                 /\ subtitleCache'[key] =
                      [content |-> ensureUtf8(files[1].content),
                       filename |-> files[1].filename, age |-> 0]
                 /\ s3 => /\ Has(puts', r)
                          /\ puts'[r] = [sub |-> rq[r].sub,
                                          content |-> ensureUtf8(files[1].content),
                                          filename |-> files[1].filename]
                 /\ ~s3 => puts' = puts
     /\ \A r \in Reqs :
          (Has(puts, r) /\ ~Has(puts', r)) =>
            \/ r2' = r2 /\ r2CachedIds' = r2CachedIds
            \/ PutSucceeded(r) /\ r2CachedIds' = r2CachedIds \cup {puts[r].sub}]_vars

\* C9 witness: a fetch has ended with a file, its put has succeeded, and the
\* bucket and the local cache hold the content sent
C9_Witness ==
  \E r \in Reqs :
    LET key == cacheKey(rq[r].sub, rq[r].link) IN
    /\ hist[r].from = "origin" /\ ~Has(puts, r)
    /\ Has(r2, subKey(rq[r].sub))
    /\ r2[subKey(rq[r].sub)].content = contentOf(resp[r])
    /\ contentOf(resp[r]) = "c1"
    /\ Has(subtitleCache, key) /\ subtitleCache[key].content = "c1"

\* C10: every id of r2CachedIds is the id of an object under subs/ in the
\* bucket; no step removes an object under subs/; and an id enters the
\* index only when the startup listing is answered, or when a put of r2Put
\* or of the restore has left the id's object in the bucket.
C10_IndexSound ==
  /\ [](\A id \in r2CachedIds :
          \E k \in DOMAIN r2 : k[1] = "subs" /\ idOfKey(k) = id)
  /\ [][/\ \A k \in DOMAIN r2 : k[1] = "subs" => k \in DOMAIN r2'
        /\ \A id \in r2CachedIds' \ r2CachedIds :
             \/ listTodo /\ ~listTodo'
             \/ \E r \in Reqs : PutSucceeded(r) /\ puts[r].sub = id
             \/ /\ adm.pc = "rs_put"
                /\ idOfKey(Head(adm.todo).key) = id
                /\ Has(r2', Head(adm.todo).key)
                /\ r2'[Head(adm.todo).key].content = Head(adm.todo).content]_vars

\* C10 witness: a put has failed and a custom subtitle has been deleted,
\* the index holds the listed id and not the id of the failed put
C10_Witness ==
  /\ r2CachedIds = {<<"101">>}
  /\ ~Has(r2, CustomKey) /\ adm.success
  /\ \E r \in Reqs : /\ hist[r].from = "origin" /\ ~Has(puts, r)
                      /\ rq[r].sub = <<"102">> /\ ~Has(r2, subKey(<<"102">>))

\* downloadSubtitle of request r calls login() in this step
CallsLogin(r) == pc[r] = "gc_ret" /\ cl[r] # 0 /\ pc'[r] # "gc_ret"

\* the session is flagged authenticated and its last successful login is
\* less than 30 minutes old
Fresh(client) == client.loggedIn /\ client.loginAge < LOGIN_FRESH

\* C11 as stated: a call of login() on a fresh session sends no request and
\* returns true, and a call on any other session starts a login attempt.
C11_LoginSkippedOrForced ==
  [][\A r \in Reqs :
       CallsLogin(r) =>
         IF Fresh(clients[cl[r]])
           THEN pc'[r] = "dl_login_ret" /\ hist'[r].login = "true" /\ clients' = clients
           ELSE pc'[r] = "dl_login"]_vars

\* C11 amended: a call of login() on a fresh session sends no request and
\* returns true; on any other session it starts a login attempt, unless an
\* attempt of that session is pending, and then it awaits that attempt and
\* sends nothing; getClient logs in every session it has just made.
C11_LoginFreshOrAttempt ==
  [][\A r \in Reqs :
       /\ CallsLogin(r) =>
            LET c == cl[r] IN
            IF Fresh(clients[c])
              THEN /\ pc'[r] = "dl_login_ret" /\ hist'[r].login = "true"
                   /\ clients' = clients
            ELSE IF clients[c].loginPromise
              THEN /\ pc'[r] = "dl_login_wait"
                   /\ clients' = [clients EXCEPT ![c].lwait = Append(@, r)]
              ELSE /\ pc'[r] = "dl_login"
                   /\ clients' = [clients EXCEPT ![c].loginPromise = TRUE]
       /\ (pc[r] # "gc_login" /\ pc'[r] = "gc_login") =>
            /\ ~Has(clients, r) /\ Has(clients', r)
            /\ ~clients'[r].loggedIn /\ clients'[r].loginPromise]_vars

\* C11 witness: a call of login() on a stale session is awaiting the pending
\* attempt of another call
C11_Witness ==
  \E r, w \in Reqs :
    /\ pc[r] = "dl_login" /\ pc[w] = "dl_login_wait" /\ cl[r] = cl[w]
    /\ clients[cl[r]].loggedIn /\ clients[cl[r]].loginAge >= LOGIN_FRESH

\* the calls of login() on session c whose _doLogin request is in flight
Attempts(c) == {r \in Reqs : cl[r] = c /\ pc[r] \in {"gc_login", "dl_login"}}

\* C12: a session has at most one login attempt in flight, and its pending
\* marker is set exactly while it has one; a call made while the marker is
\* set starts no attempt; when the attempt settles every call that awaited
\* it completes as the attempt did and the marker is cleared.
C12_SingleFlightLogin ==
  /\ [](\A c \in DOMAIN clients :
          /\ Cardinality(Attempts(c)) <= 1
          /\ clients[c].loginPromise <=> Attempts(c) # {}
          /\ clients[c].lwait # <<>> => clients[c].loginPromise)
  /\ [][\A r \in Reqs :
          /\ (CallsLogin(r) /\ clients[cl[r]].loginPromise) => pc'[r] # "dl_login"
          /\ (pc[r] = "dl_login" /\ pc'[r] # "dl_login") =>
               LET c == cl[r] IN
               /\ hist'[r].login \in {"true", "false", "thrown"}
               /\ \A w \in InSeq(clients[c].lwait) :
                    /\ hist'[w].login = hist'[r].login
                    /\ pc'[w] = pc'[r]
               /\ ~clients'[c].loginPromise
               /\ clients'[c].lwait = <<>>]_vars

\* C12 witness: two calls on one session have completed with the result
\* of one failed attempt
C12_Witness ==
  \E r, w \in Reqs :
    /\ r # w /\ cl[r] # 0 /\ cl[r] = cl[w]
    /\ hist[r].login = "false" /\ hist[w].login = "false"
    /\ ~clients[cl[r]].loginPromise

\* C13: the download page is requested only by a call whose login() at its
\* start returned true, on a session that is flagged authenticated.
C13_ScrapeOnlyAuthenticated ==
  \A r \in Reqs :
    pc[r] = "dl_page" => (hist[r].login = "true" /\ clients[cl[r]].loggedIn)

\* C14: when the login request of a call of login() has ended, the call
\* completes with true or false, and unless it completes with true the
\* session is flagged unauthenticated.
C14_LoginBooleanAndFlag ==
  [][\A r \in Reqs :
       (pc[r] = "dl_login" /\ pc'[r] # "dl_login") =>
         /\ hist'[r].login \in {"true", "false"}
         /\ hist'[r].login # "true" => ~clients'[cl[r]].loggedIn]_vars

\* the candidates of a list that have at least two characters, in list order
Long(title) == Len(title) >= 2

\* the positions of the candidates with two characters or more whose query
\* gives rows
Yielding == {j \in DOMAIN call.titles :
               Long(call.titles[j]) /\ call.site[call.titles[j]] # <<>>}

\* C15: search(candidates) returns exactly the result list of the first
\* candidate, in list order, that has at least 2 characters and yields a
\* non-empty result set, and the empty list when there is none; queries are
\* sent for the candidates of 2 characters or more up to that one, in order,
\* and for no other candidate.
C15_SearchCascade ==
  /\ \A k \in DOMAIN call.sent : Long(call.sent[k])
  /\ call.pc = "returned" =>
       IF Yielding = {}
         THEN /\ call.result = <<>>
              /\ call.sent = SelectSeq(call.titles, Long)
         ELSE LET first == CHOOSE j \in Yielding : \A k \in Yielding : j <= k IN
              /\ call.result = call.site[call.titles[first]]
              /\ call.sent = SelectSeq(SubSeq(call.titles, 1, first), Long)

\* a one-character candidate and a candidate with no rows precede the
\* candidate whose rows are returned
C15_Witness ==
  /\ call.pc = "returned"
  /\ call.titles = <<<<"x">>, <<"u", "p">>, <<"i", "t">>>>
  /\ call.site[<<"u", "p">>] = <<>>
  /\ call.result = <<"it-1">>
  /\ call.sent = <<<<"u", "p">>, <<"i", "t">>>>

\* the release-context tokens of the title match
ContextTokens ==
  {<<"s", d>> : d \in Digits}
  \cup {<<"s", "e", "a", "s", "o", "n">>, <<"7", "2", "0">>, <<"1", "0", "8", "0">>,
        <<"2", "1", "6", "0">>, <<"b", "l", "u", "r", "a", "y">>,
        <<"b", "r", "r", "i", "p">>, <<"w", "e", "b">>, <<"d", "v", "d">>,
        <<"h", "d", "t", "v">>, <<"x", "2", "6">>}

\* a string lower-cased, without the characters other than a-z, 0-9 and
\* whitespace, and without the whitespace around it
Cleaned(s) == trim(SelectSeq(toLowerCase(s), titleChar))

\* the cleaned text is the cleaned target followed by nothing, by four
\* digits, or by a release-context token (whitespace in between set aside)
StatedMatch(target, text) ==
  LET t == Cleaned(target)
      x == Cleaned(text)
  IN  /\ Len(t) <= Len(x)
      /\ SubSeq(x, 1, Len(t)) = t
      /\ LET rest == trim(SubSeq(x, Len(t) + 1, Len(x))) IN
         \/ rest = <<>>
         \/ Len(rest) >= 4 /\ \A i \in 1..4 : rest[i] \in Digits
         \/ \E w \in ContextTokens : Len(w) <= Len(rest) /\ SubSeq(rest, 1, Len(w)) = w

\* C16 as stated: isExactTitleMatch(target, text) is true exactly when the
\* cleaned text equals the cleaned target or starts with it and goes on with
\* nothing, four digits or a release-context token, whatever the arguments.
C16_MatchIffStated ==
  (call.op = "isExactTitleMatch" /\ call.done) =>
    (call.result <=> StatedMatch(call.movieName, call.subText))

\* C16: isExactTitleMatch(target, text) is false when either argument is the
\* empty string, and otherwise true exactly when the cleaned text equals the
\* cleaned target or starts with it and goes on with nothing, four digits or
\* a release-context token; "iron man" matches "iron man" and "iron man 2008
\* bluray" and not "iron man 2"; the filter admits a result exactly when its
\* title or its link slug matches.
C16_MatchIffStatedNonEmpty ==
  /\ (call.op = "isExactTitleMatch" /\ call.done) =>
       (call.result <=> /\ call.movieName # <<>>
                        /\ call.subText # <<>>
                        /\ StatedMatch(call.movieName, call.subText))
  /\ (call.op = "isExactTitleMatch" /\ call.done /\ call.movieName = IronMan) =>
       /\ call.subText = IronMan => call.result
       /\ call.subText = IronMan \o Year2008 \o BluRay => call.result
       /\ call.subText = IronMan \o Part2 => ~call.result
  /\ (call.op = "filter" /\ call.done) =>
       (call.result <=>
          /\ filterMovieName(call.name) # <<>>
          /\ \/ filterSubTitle(call.sub) # <<>>
                /\ StatedMatch(filterMovieName(call.name), filterSubTitle(call.sub))
             \/ filterSubLink(call.sub) # <<>>
                /\ StatedMatch(filterMovieName(call.name), filterSubLink(call.sub)))

\* "iron man 2008 bluray" has been matched against "iron man"
C16_Witness ==
  /\ call.op = "isExactTitleMatch" /\ call.done /\ call.result
  /\ call.movieName = IronMan
  /\ call.subText = IronMan \o Year2008 \o BluRay


\* the ladder entries whose tag is found in a label
LadderFound(label) ==
  LET lower == tagText(label)
  IN  {k \in DOMAIN QUALITY_ORDER : includes(lower, tagLower(QUALITY_ORDER[k].tag))}

\* the score of the highest-ranked entry of a set of ladder entries, 0 for none
TopScore(ks) ==
  IF ks = {} THEN 0
  ELSE QUALITY_ORDER[CHOOSE k \in ks :
         \A j \in ks : QUALITY_ORDER[j].score <= QUALITY_ORDER[k].score].score

Scored == call.op = "score" /\ call.done
PlayingTags == InSeq(call.playingTags)

\* C17: when the playing file has no release tags, a candidate's score is the
\* score of the single highest-ranked ladder tag found in its label (0 when
\* none is found), and a label with only "2160p" scores strictly more than
\* one with only "720p", which scores strictly more than one with only
\* "dvdrip".
C17_BestLadderTag ==
  /\ (Scored /\ PlayingTags = {}) =>
       call.score = TopScore(LadderFound(labelOf(call.sub)))
  /\ qualityScore(<<"2", "1", "6", "0", "p">>) > qualityScore(<<"7", "2", "0", "p">>)
  /\ qualityScore(<<"7", "2", "0", "p">>) > qualityScore(<<"d", "v", "d", "r", "i", "p">>)
  /\ qualityScore(<<"d", "v", "d", "r", "i", "p">>) > 0

\* a label with two ladder tags has been given the score of the higher one
C17_Witness ==
  /\ Scored /\ PlayingTags = {}
  /\ call.sub.version = <<"7", "2", "0", "p">> \o <<"2", "1", "6", "0", "p">>
  /\ call.score = 100

\* the tags of a list that are in the playing file's tags and in the label's
Matching(list) ==
  LET subTags == InSeq(extractReleaseTags(labelOf(call.sub)))
  IN  {t \in InSeq(list) : t \in PlayingTags /\ t \in subTags}

\* C18: when the playing file's tags are known, a candidate's score is 20
\* for every resolution tag, 15 for every source-type tag and 5 for every
\* codec tag that is both among the playing file's tags and among the tags of
\* the label, added up; it is 0 when the label is empty.
C18_TagScoreSum ==
  (Scored /\ PlayingTags # {}) =>
    /\ call.score = 20 * Cardinality(Matching(resolutions))
                    + 15 * Cardinality(Matching(sources))
                    + 5 * Cardinality(Matching(codecs))
    /\ labelOf(call.sub) = <<>> => call.score = 0

\* a resolution and two source types match: 20 + 2 * 15
C18_Witness ==
  /\ Scored
  /\ Cardinality(Matching(resolutions)) = 1
  /\ Cardinality(Matching(sources)) = 2
  /\ Cardinality(Matching(codecs)) = 0
  /\ call.score = 50


\* a text without the carriage return of every CRLF pair: the character at
\* position i moves down by the number of pairs before it
LfOnly(s) ==
  LET cr == {i \in DOMAIN s : s[i] = "\r" /\ i < Len(s) /\ s[i + 1] = "\n"}
      before == [i \in DOMAIN s |-> Cardinality({k \in cr : k < i})]
  IN  [j \in 1..(Len(s) - Cardinality(cr)) |->
         s[CHOOSE i \in DOMAIN s \ cr : i - before[i] = j]]

\* the comma at position i stands between HH:MM:SS and mmm
MarkerShape(s, i) ==
  /\ s[i] = "," /\ i > 8 /\ i + 3 <= Len(s)
  /\ \A k \in {i - 8, i - 7, i - 5, i - 4, i - 2, i - 1, i + 1, i + 2, i + 3} :
       s[k] \in Digits
  /\ s[i - 6] = ":" /\ s[i - 3] = ":"

\* the comma at position i is that of a marker, markers being read from left
\* to right and sharing no character
RECURSIVE MarkerComma(_, _)
MarkerComma(s, i) ==
  /\ MarkerShape(s, i)
  /\ \A j \in (i - 11)..(i - 1) : j >= 1 => ~MarkerComma(s, j)

\* a text with the comma of every HH:MM:SS,mmm marker turned into a dot and
\* every other character as it was
Dotted(s) == [i \in DOMAIN s |-> IF MarkerComma(s, i) THEN "." ELSE s[i]]

Converted == call.op = "srtToVtt" /\ call.done

\* C19 as stated: the output of srtToVtt is the header "WEBVTT", a blank line
\* and the input with every CRLF replaced by LF and every HH:MM:SS,mmm marker
\* rewritten to HH:MM:SS.mmm, everything else unchanged.
C19_HeaderAndRewrittenBody ==
  Converted => call.out = WEBVTT \o Dotted(LfOnly(call.in))

\* C19: the output of srtToVtt is the header "WEBVTT", a blank line, then the
\* input with every CRLF replaced by LF and every HH:MM:SS,mmm marker
\* rewritten to HH:MM:SS.mmm, without the whitespace at its two ends, then
\* one LF; "1\n00:00:01,000 --> 00:00:02,500\nHello\n" gives
\* "WEBVTT\n\n1\n00:00:01.000 --> 00:00:02.500\nHello\n".
C19_HeaderAndTrimmedBody ==
  /\ Converted => call.out = WEBVTT \o trim(Dotted(LfOnly(call.in))) \o <<"\n">>
  /\ (Converted /\ call.in = <<"1", "\n", "0", "0", ":", "0", "0", ":", "0", "1",
                          ",", "0", "0", "0", " ", "-", "-", ">", " ", "0",
                          "0", ":", "0", "0", ":", "0", "2", ",", "5", "0",
                          "0", "\n", "H", "e", "l", "l", "o", "\n">>) =>
       call.out = <<"W", "E", "B", "V", "T", "T", "\n", "\n", "1", "\n", "0",
                    "0", ":", "0", "0", ":", "0", "1", ".", "0", "0", "0",
                    " ", "-", "-", ">", " ", "0", "0", ":", "0", "0", ":",
                    "0", "2", ".", "5", "0", "0", "\n", "H", "e", "l", "l",
                    "o", "\n">>

\* a file with CRLF line ends and a blank line at its end has been converted
C19_Witness ==
  /\ Converted
  /\ call.in = <<"1", "\n">> \o SrtTimes \o <<"\r", "\n">> \o <<"\r", "\n">>
  /\ call.out = WEBVTT \o <<"1", "\n", "0", "0", ":", "0", "0", ":", "0", "1",
                        ".", "0", "0", "0", " ", "-", "-", ">", " ", "0", "0",
                        ":", "0", "0", ":", "0", "2", ".", "5", "0", "0", "\n">>


\* an ASS time H:MM:SS.CC written as HH:MM:SS.mmm
StatedTime(t) ==
  (IF Len(t.h) = 1 THEN <<"0">> \o t.h ELSE t.h) \o <<":">> \o t.m \o <<":">> \o t.s
  \o <<".">> \o t.cc \o <<"0">>

\* a text with its tag pairs replaced by the markup of the same letter
StatedPiece(p) ==
  IF p.tag = "" THEN p.chars
  ELSE <<"<", p.tag, ">">> \o p.chars \o <<"<", "/", p.tag, ">">>
StatedText(pieces) == Flat([k \in DOMAIN pieces |-> StatedPiece(pieces[k])])

AssConverted == call.op = "assToVtt" /\ call.done

\* C20: in the events section, every Dialogue line under a Format header that
\* names Start, End and Text becomes one cue, in order; the cue's start and
\* end are the line's H:MM:SS.CC times written as HH:MM:SS.mmm, and its text
\* holds the line's text with the bold, italic and underline tag pairs
\* replaced by markup, and is exactly that when the style adds no formatting;
\* 0:00:01.00, 0:00:03.00 and {\b1}Hello{\b0} world give 00:00:01.000,
\* 00:00:03.000 and <b>Hello</b> world.
C20_DialogueToCue ==
  (AssConverted /\ call.file.format # "notext") =>
    /\ Len(call.dialogues) = Len(call.file.dialogues)
    /\ \A k \in DOMAIN call.file.dialogues :
         LET d == call.file.dialogues[k]
             cue == call.dialogues[k]
         IN  /\ cue.start = StatedTime(d.start)
             /\ cue.end = StatedTime(d.end)
             /\ includes(cue.text, StatedText(d.text))
             /\ call.file.styles # "bold" => cue.text = StatedText(d.text)
             /\ (call.file.styles = "none" /\ d.text = HelloWorld
                 /\ timeText(d.start) = <<"0", ":", "0", "0", ":", "0", "1", ".", "0", "0">>
                 /\ timeText(d.end) = <<"0", ":", "0", "0", ":", "0", "3", ".", "0", "0">>) =>
                  cue = [start |-> <<"0", "0", ":", "0", "0", ":", "0", "1", ".", "0", "0", "0">>,
                         end |-> <<"0", "0", ":", "0", "0", ":", "0", "3", ".", "0", "0", "0">>,
                         text |-> <<"<", "b", ">", "H", "e", "l", "l", "o", "<",
                                 "/", "b", ">", " ", "w", "o", "r", "l", "d">>]

\* the example line, under the full Format header, has become the first cue
C20_Witness ==
  /\ AssConverted
  /\ call.file.format = "full" /\ call.file.styles = "none"
  /\ call.file.dialogues[1].text = HelloWorld
  /\ call.dialogues # <<>>
  /\ call.dialogues[1] = [start |-> <<"0", "0", ":", "0", "0", ":", "0", "1", ".", "0", "0", "0">>,
                          end |-> <<"0", "0", ":", "0", "0", ":", "0", "3", ".", "0", "0", "0">>,
                          text |-> <<"<", "b", ">", "H", "e", "l", "l", "o", "<",
                                  "/", "b", ">", " ", "w", "o", "r", "l", "d">>]

Decoded == call.op = "ensureUtf8" /\ call.done

\* the bytes begin with the given bytes
BeginsWith(s, mark) == Len(s) >= Len(mark) /\ \A i \in DOMAIN mark : s[i] = mark[i]

\* more than 2% of the characters of a text of more than 50 characters are
\* suspicious two-character sequences
TooSuspicious(str) ==
  /\ Len(str) > 50
  /\ 100 * Cardinality({i \in DOMAIN str :
                          /\ i < Len(str)
                          /\ str[i] >= 192 /\ str[i] <= 195
                          /\ str[i + 1] >= 128 /\ str[i + 1] <= 191}) > 2 * Len(str)

Ordered == call.op = "order" /\ call.pc = "done"

\* the score of the result an entry of the response lists, and its place in
\* the filtered results
ScoreOf(entry) ==
  LET k == CHOOSE k \in DOMAIN call.scoredResults :
             call.scoredResults[k].sub.id = entry.id[2]
  IN  call.scoredResults[k].score

PlaceOf(entry) ==
  CHOOSE k \in DOMAIN call.filtered : call.filtered[k].id = entry.id[2]

\* entry a may stand before entry b by score: a's is higher, or they are
\* equal and a came first in the filtered results
ByScoreThenPlace(a, b) ==
  \/ ScoreOf(a) > ScoreOf(b)
  \/ ScoreOf(a) = ScoreOf(b) /\ PlaceOf(a) < PlaceOf(b)

\* C27 as stated: in every mode the site results of a response are in
\* descending score order, results of equal score in their filtered order.
C27_DescendingScore ==
  Ordered =>
    \A i, j \in DOMAIN call.subtitles :
      i < j => ByScoreThenPlace(call.subtitles[i], call.subtitles[j])

\* C27: outside Omni mode the site results of a response are in descending
\* score order, results of equal score in their filtered order; in Omni mode
\* the results the existence index holds come first, and each of the two
\* groups is ordered that way.
C27_DescendingScoreWithinCached ==
  Ordered =>
    \A i, j \in DOMAIN call.subtitles :
      i < j =>
        LET a == call.subtitles[i]
            b == call.subtitles[j]
        IN  IF call.isOmni /\ a.cached # b.cached THEN a.cached
            ELSE ByScoreThenPlace(a, b)

\* an Omni response lists a cached result before one of higher score
C27_Witness ==
  /\ Ordered
  /\ call.isOmni
  /\ \E i, j \in DOMAIN call.subtitles :
       /\ i < j
       /\ call.subtitles[i].cached /\ ~call.subtitles[j].cached
       /\ ScoreOf(call.subtitles[i]) < ScoreOf(call.subtitles[j])

RouteResponded == call.op = "route" /\ call.pc = "done"

\* the search route, given a decodable config, ends with a result list and
\* never with an error, and the list is empty after a failed login, a missing
\* title resolution, an empty search and a thrown error
C22_FailuresGiveEmptyList ==
  RouteResponded =>
    /\ call.response.status = 200
    /\ (call.loginFailed \/ call.noMeta \/ call.emptySearch \/ call.thrown)
         => call.response.subtitles = <<>>

\* C22, the failed login: when a login() of the request has returned false,
\* the response lists no result of the site.
C22_FailedLoginListsNothing ==
  (RouteResponded /\ call.loginFailed) =>
    \A k \in DOMAIN call.response.subtitles :
      call.response.subtitles[k].id[1] # "titulky"

\* request r is fetching from the site
Fetching(r) ==
  pc[r] \in {"gc_login", "gc_ret", "dl_login", "dl_login_wait", "dl_login_ret",
            "dl_page", "dl_wait", "dl_zip"}

\* C23: a request never awaits a download lock made by a request for another
\* subtitle id, and never sits waiting for a lock while a request for another
\* id is the only one fetching.
C23_WaitsOnOwnIdOnly ==
  \A r \in Reqs :
    /\ hist[r].waitedOn # 0 => rq[hist[r].waitedOn].sub = rq[r].sub
    /\ pc[r] = "lock_wait" =>
         \A x \in DOMAIN downloadLocks : x # rq[r].sub => downloadLocks[x] # hist[r].waitedOn

\* a request for one id has sent its download page request while the fetch of
\* an earlier request for another id is in flight, and has waited on no lock
C23_Witness ==
  \E r, x \in Reqs :
    /\ x < r
    /\ rq[x].sub # rq[r].sub
    /\ Fetching(x) /\ Has(downloadLocks, rq[x].sub) /\ downloadLocks[rq[x].sub] = x
    /\ pc[r] = "dl_page" /\ hist[r].waitedOn = 0
\* C24: one call of search() calls login() exactly once, and no query is
\* sent before that call has completed.
C24_OneLoginBeforeQueries ==
  call.op = "search" =>
    /\ call.logins = (IF call.pc = "start" THEN 0 ELSE 1)
    /\ call.pc \in {"start", "login"} => call.sent = <<>>

\* search() has returned after three queries and one login
C24_Witness ==
  /\ call.op = "search" /\ call.pc = "returned"
  /\ Len(call.sent) = 3
  /\ call.logins = 1

Parsed == call.op = "parse" /\ call.pc = "done"

\* what a piece of a page holds: the id of a result row with a link, and the
\* link of an anchor that is closed
RowId(part) ==
  IF part = RowUp THEN <<<<"1", "0", "1">>>> ELSE IF part = RowUpper THEN <<<<"1", "0", "2">>>> ELSE <<>>

IdsOf(results) == [k \in DOMAIN results |-> results[k].id]

RECURSIVE RowIds(_)
RowIds(parts) == IF parts = <<>> THEN <<>> ELSE RowId(Head(parts)) \o RowIds(Tail(parts))

\* C25: the rows' results and the links' results are never merged: when a row
\* gives a result the list holds the rows' results and the links are not
\* parsed, the links are parsed only when no row gives a result, and a row
\* without a link is dropped while the rows around it are kept.
C25_RowsOrLinksNeverBoth ==
  Parsed =>
    /\ IdsOf(call.rows) = RowIds(call.parts)
    /\ call.fallback <=> Len(call.rows) = 0
    /\ Len(call.rows) > 0 => call.result = call.rows
    /\ call.fallback => call.result = parseLinkBased(call.content)

\* a page with a row without a link between two rows with one, and an anchor
\* outside the rows, has given the two rows' results
C25_Witness ==
  /\ Parsed
  /\ call.parts = <<RowUp, RowNoLink, RowUpper>> \/ call.parts = <<RowUp, LinkUp, RowUpper>>
  /\ IdsOf(call.result) = <<<<"1", "0", "1">>, <<"1", "0", "2">>>>
  /\ call.result[1].linkFile = <<"U", "p", "-", "2", "0", "0", "9", "-", "1", "0", "1">>
  /\ call.result[1].title = <<"U", "p", " ", "&", " ", "C", "o">>
  /\ call.result[1].version = <<"U", "p", ".", "1", "0", "8", "0", "p">>
  /\ call.result[2].title = <<"U", "p", "-", "1", "0", "2">>

\* C26: the list of the link-based fallback holds every id at most once, no
\* entry's link slug contains a denylisted word, and the entry of an id is
\* its first anchor that is not denylisted.
FirstLinks ==
  IF call.parts = <<LinkForum, LinkUp, LinkUpAgain>> THEN <<<<"U", "p", "-", "2", "0", "0", "9", "-", "1", "0", "1">>>>
  ELSE IF call.parts = <<LinkUpAgain, LinkForum, LinkUp>> THEN <<<<"U", "p", "-", "a", "g", "a", "i", "n", "-", "1", "0", "1">>>>
  ELSE IF call.parts = <<RowHead, LinkUpAgain, LinkUp>> THEN <<<<"T", "o", "p", "-", "5", "5", "5">>, <<"U", "p", "-", "a", "g", "a", "i", "n", "-", "1", "0", "1">>>>
  ELSE [k \in DOMAIN call.result |-> call.result[k].linkFile]

C26_LinksUniqueNotDenylisted ==
  (Parsed /\ call.fallback) =>
    /\ \A i, j \in DOMAIN call.result :
         i # j => call.result[i].id # call.result[j].id
    /\ \A i \in DOMAIN call.result :
         \A w \in Denylist : ~includes(toLowerCase(call.result[i].linkFile), w)
    /\ [k \in DOMAIN call.result |-> call.result[k].linkFile] = FirstLinks

\* the fallback has passed over a denylisted anchor for id 101, taken the
\* next anchor for it and passed over a third
C26_Witness ==
  /\ Parsed /\ call.fallback
  /\ call.parts = <<LinkForum, LinkUp, LinkUpAgain>>
  /\ Len(call.result) = 1
  /\ call.result[1].id = <<"1", "0", "1">>
  /\ call.result[1].linkFile = <<"U", "p", "-", "2", "0", "0", "9", "-", "1", "0", "1">>

\* C28: a request whose download-resolution page held the CAPTCHA marker
\* ends at the step that received the page, with the limit message, without
\* a countdown wait and without an archive request, and is never handled
\* again.
C28_CaptchaEndsWithLimit ==
  [][\A r \in Reqs :
       hist'[r].captcha =>
         /\ pc[r] \in {"dl_page", "done"}
         /\ pc'[r] = "done"
         /\ resp'[r] = limitMsg(rq[r].cfg.omni)]_vars

\* a request that fetched has received the CAPTCHA marker and has the limit
\* message, while a later request for the same id is being handled
C28_Witness ==
  \E r, x \in Reqs :
    /\ hist[r].captcha /\ hist[r].fetched
    /\ pc[r] = "done" /\ resp[r].kind = "limit"
    /\ x > r /\ rq[x].sub = rq[r].sub /\ pc[x] \notin {"idle", "done"}

\* C29: the archive request is not sent before the page's countdown of n
\* seconds, counted from the second the page was received, has passed; with
\* no countdown it is sent in the second the page was received.
C29_ArchiveAfterCountdown ==
  (call.op = "download" /\ call.zipSent) =>
    /\ call.zipAt >= call.receivedAt + call.page.countdown
    /\ call.page.countdown = 0 => call.zipAt = call.receivedAt

\* the page came a second after it was asked for with a countdown of 2, and
\* the archive has been asked for two seconds later
C29_Witness ==
  /\ call.op = "download" /\ call.zipSent
  /\ call.page.countdown = 2
  /\ call.askedAt = 0 /\ call.receivedAt = 1 /\ call.zipAt = 3

\* C30: downloadSubtitle returns no files and does not throw when the page
\* it received has no anchor, asking for no archive, and when the archive
\* answer is missing or under 50 bytes, unpacking nothing; an answer of 50
\* bytes or more is unpacked, and an archive that cannot be read gives null.
C30_NoFilesWithoutThrowing ==
  call.op = "download" =>
    /\ (call.received /\ ~call.page.captcha /\ ~call.page.link)
         => (call.pc = "done" /\ ~call.thrown /\ call.result = Null /\ ~call.zipSent)
    /\ (call.answered /\ (~call.data.present \/ call.data.length <= 49))
         => (call.pc = "done" /\ ~call.thrown /\ call.result = Null /\ ~call.unpacked)
    /\ (call.answered /\ call.data.present /\ call.data.length >= 50)
         => call.unpacked
    /\ (call.unpacked /\ ~call.data.readable) => (~call.thrown /\ call.result = Null)
    /\ (call.unpacked /\ call.data.readable)
         => call.result = Files(extractSubtitles(call.data.archive))

\* an archive answer of exactly 50 bytes has been unpacked and gave files
C30_Witness ==
  /\ call.op = "download" /\ call.unpacked
  /\ call.data.length = 50
  /\ ~call.result.null /\ Len(call.result.files) = 2

\* the extension of a name: what follows its last dot, in lower case; a
\* name without a dot has none
HasExtension(name, ext) ==
  /\ \E p \in DOMAIN name : name[p] = "."
  /\ toLowerCase(lastPart(name)) = ext

SubtitleEntry(entry) ==
  /\ ~entry.isDirectory
  /\ \E e \in exts : HasExtension(entry.entryName, Tail(e))

SrtFile(f) == HasExtension(f.filename, <<"s", "r", "t">>)

Extracted == call.op = "extract" /\ call.pc \in {"returned", "done"}

\* C31: _extractSubtitles returns exactly the archive entries that are not
\* directories and whose extension is .srt, .sub, .txt, .smi, .ssa or .ass
C31_ExactlySubtitleEntries ==
  Extracted =>
    /\ \A k \in DOMAIN call.results :
         \E i \in DOMAIN call.entries :
           /\ call.entries[i].entryName = call.results[k].filename
           /\ SubtitleEntry(call.entries[i])
    /\ Len(call.results)
         = Cardinality({i \in DOMAIN call.entries : SubtitleEntry(call.entries[i])})

\* the order of the files returned: every .srt file precedes every other file, files of one
\* class keep their archive order, and the file served is an .srt file
\* whenever one was extracted
C31_SrtFirst ==
  Extracted =>
    /\ \A i, j \in DOMAIN call.results :
         SrtFile(call.results[j]) /\ ~SrtFile(call.results[i]) => j < i
    /\ LET class(srt) == SelectSeq(call.results, LAMBDA f : SrtFile(f) = srt)
           pushed == pushEntries(call.entries)
       IN  \A srt \in BOOLEAN :
             class(srt) = SelectSeq(pushed, LAMBDA f : SrtFile(f) = srt)
    /\ call.pc = "done" /\ (\E k \in DOMAIN call.results : SrtFile(call.results[k]))
         => SrtFile(call.served[1])

\* the value the session holds for a cookie name, none when it has none
Held(name) ==
  {call.cookies[k].value : k \in {k \in DOMAIN call.cookies : call.cookies[k].name = name}}

\* C32: the session's cookie set maps every cookie name ever received to
\* the value of the latest response that set it
C32_HoldsLatestOfEveryResponse ==
  call.op = "cookies" =>
    \A name \in DOMAIN call.latest : Held(name) = {call.latest[name]}

\* the same of the responses that _request sees
HoldsLatestOfFinalResponses ==
  call.op = "cookies" =>
    \A name \in DOMAIN call.latestFinal : Held(name) = {call.latestFinal[name]}

\* no cookie is ever removed
NoCookieRemoved ==
  [][call.op = "cookies" =>
       \A k \in DOMAIN call.cookies :
         k \in DOMAIN call'.cookies /\ call'.cookies[k].name = call.cookies[k].name]_vars

\* every request that leaves, a followed redirect included, carries the
\* cookie string of the moment it is sent
CarriesAllCookies == call.op = "cookies" => call.replayed

\* without a redirect it does
CarriesAllCookiesUnlessRedirected ==
  call.op = "cookies" /\ ~call.redirected =>
    /\ call.replayed
    /\ \A name \in DOMAIN call.latest : Held(name) = {call.latest[name]}

\* the line the scan is at, trimmed
ScanAt == trim(call.lines[call.i])
IsDialogue(trimmed) == testPrefix(trimmed, <<"d", "i", "a", "l", "o", "g", "u", "e", ":">>)
IsStyle(trimmed) == testPrefix(trimmed, <<"s", "t", "y", "l", "e", ":">>)
OtherHeader(trimmed) ==
  startsWith(trimmed, <<"[">>) /\ ~isStylesHeader(trimmed) /\ ~isEventsHeader(trimmed)

\* C33: the styles and events flags are never both set; a Style line is
\* captured only in the styles section and a Dialogue line converted only in
\* the events section; any other bracketed header met in the events section
\* ends the scan, and no later line produces a cue
C33_SectionFlags ==
  [][call.op = "scan" /\ call.pc = "loop" =>
       /\ ~(call'.st.inStyles /\ call'.st.inEvents)
       /\ call'.st.styles # call.st.styles => call.st.inStyles /\ IsStyle(ScanAt)
       /\ call'.st.dialogues # call.st.dialogues =>
            call.st.inEvents /\ IsDialogue(ScanAt) /\ ~call.st.broke
       /\ call'.i > call.i /\ call.st.inEvents /\ OtherHeader(ScanAt) =>
            call'.st.broke /\ call'.st.dialogues = call.st.dialogues
       /\ call.st.broke =>
            call'.pc = "done" /\ call'.st = call.st
            /\ call'.out = WEBVTT \o cuesOf(call.st.dialogues)]_vars

\* a file whose events section is ended by another header, a Dialogue line
\* that would have been a cue following it
C33_Witness ==
  /\ call.op = "scan" /\ call.pc = "done" /\ call.st.broke
  /\ Len(call.st.dialogues) = 1
  /\ call.i <= Len(call.lines)
  /\ \E k \in call.i..Len(call.lines) : call.lines[k] = LineDialogueBold
  /\ \E k \in 1..(call.i - 1) : call.lines[k] = LineStyle

\* the variables of the scan when it comes to line k
Before(k) == scanLines(SubSeq(call.lines, 1, k - 1), 1, ScanStart)

\* the Dialogue lines of the events section, in source order
EventDialogues ==
  SelectSeq([k \in DOMAIN call.lines |-> k],
            LAMBDA k : /\ ~Before(k).broke /\ Before(k).inEvents
                       /\ IsDialogue(trim(call.lines[k])))

\* a Dialogue line with at least the fields of the Format line read before
\* it, which names Start, End and Text
Convertible(k) ==
  LET fields == Before(k).formatFields
      parts == splitCommas(trimStart(slice(trim(call.lines[k]), 9)), 1)
  IN  /\ Len(parts) >= Len(fields)
      /\ \A name \in {<<"s", "t", "a", "r", "t">>, <<"e", "n", "d">>, <<"t", "e", "x", "t">>} :
           \E i \in DOMAIN fields : fields[i] = name

\* the cue of Dialogue line k
CueOf(k) ==
  LET ds == dialogueLine(Before(k), trim(call.lines[k])).dialogues
  IN  ds[Len(ds)]

\* the header and the cues ds, a blank line between two cues
Rendered(ds) ==
  WEBVTT \o Flat([j \in DOMAIN ds |->
                    ds[j].start \o <<" ", "-", "-", ">", " ">> \o ds[j].end \o <<"\n">>
                    \o ds[j].text \o <<"\n">>
                    \o (IF j < Len(ds) THEN <<"\n">> ELSE <<>>)])

\* C34: the output is the header followed by exactly one cue for each
\* Dialogue line of the events section, in source order
C34_OneCuePerDialogue ==
  call.op = "scan" /\ call.pc = "done" =>
    /\ Len(call.st.dialogues) = Len(EventDialogues)
    /\ \A j \in DOMAIN EventDialogues : call.st.dialogues[j] = CueOf(EventDialogues[j])
    /\ call.out = Rendered(call.st.dialogues)

\* C34, amended: one cue for each Dialogue line of the events section that
\* has at least the fields of the Format line in force, that line naming
\* Start, End and Text; the other Dialogue lines give no cue
C34_OneCuePerConvertibleDialogue ==
  call.op = "scan" /\ call.pc = "done" =>
    LET kept == SelectSeq(EventDialogues, Convertible) IN
    /\ Len(call.st.dialogues) = Len(kept)
    /\ \A j \in DOMAIN kept : call.st.dialogues[j] = CueOf(kept[j])
    /\ call.out = Rendered(call.st.dialogues)

\* two cues in source order, a Dialogue line with too few fields between or
\* around them giving none
C34_Witness ==
  /\ call.op = "scan" /\ call.pc = "done"
  /\ Len(call.st.dialogues) = 2 /\ Len(EventDialogues) = 3
  /\ call.st.dialogues[1].start # call.st.dialogues[2].start

\* the text field and the style of Dialogue line k, as line 905-910 reads them
TextOf(k) ==
  LET parts == splitCommas(trimStart(slice(trim(call.lines[k]), 9)), 1)
      textIdx == indexOf(Before(k).formatFields, <<"t", "e", "x", "t">>)
  IN  trim(joinCommas(SubSeq(parts, textIdx, Len(parts))))

StyleOf(k) ==
  LET parts == splitCommas(trimStart(slice(trim(call.lines[k]), 9)), 1)
      styleIdx == indexOf(Before(k).formatFields, <<"s", "t", "y", "l", "e">>)
      styleName == partAt(parts, styleIdx)
  IN  IF styleIdx > 0 /\ Has(Before(k).styles, styleName)
        THEN Before(k).styles[styleName] ELSE NoStyle

\* the text has an inline override of a kind
InlineTag(text, letter) ==
  includes(text, inlineTag(letter, "1")) \/ includes(text, inlineTag(letter, "0"))
InlineColour(text) == \E p \in DOMAIN text : colorTagAt(text, p) > 0

\* C35: the bold, italic or colour of a dialogue's style wraps the cue text
\* only if the dialogue has no inline override of the same kind; a dialogue
\* with an inline colour is not wrapped in the colour of its style
C35_StyleWrapsUnlessInline ==
  call.op = "scan" /\ call.pc = "done" =>
    LET kept == SelectSeq(EventDialogues, Convertible) IN
    \A j \in DOMAIN kept :
      j \in DOMAIN call.st.dialogues =>
        LET text == TextOf(kept[j])
            style == StyleOf(kept[j])
        IN  call.st.dialogues[j].text =
              assTextToVtt(text,
                [bold |-> style.bold /\ ~InlineTag(text, "b"),
                 italic |-> style.italic /\ ~InlineTag(text, "i"),
                 color |-> IF InlineColour(text) THEN <<>> ELSE style.color])

\* the formatting of the style wraps the cue text whatever the text holds
StyleWrapsAlways ==
  call.op = "scan" /\ call.pc = "done" =>
    LET kept == SelectSeq(EventDialogues, Convertible) IN
    \A j \in DOMAIN kept :
      call.st.dialogues[j].text = assTextToVtt(TextOf(kept[j]), StyleOf(kept[j]))

\* C36: when a fetch succeeds, the cache entry of its key is there in the
\* state in which the lock entry is gone and the waiters are woken; a woken
\* request for the same id and link token finds it and answers with it,
\* without fetching
C36_EntryBeforeWake ==
  [][\A r \in Reqs :
       LET key == cacheKey(rq[r].sub, rq[r].link)
           h == hist[r].waitedOn
       IN  /\ (hist[r].from # "origin" /\ hist'[r].from = "origin") =>
                /\ Has(subtitleCache', key)
                /\ resp'[r] = sendSub(subtitleCache'[key].content,
                                      subtitleCache'[key].filename, rq[r].cfg.omni)
                /\ ~(Has(downloadLocks', lockId(rq[r].sub))
                     /\ downloadLocks'[lockId(rq[r].sub)] = r)
                /\ \A w \in Reqs :
                     (pc[w] = "lock_wait" /\ hist[w].waitedOn = r) => pc'[w] = "lock_ret"
           /\ (pc[r] = "lock_ret" /\ hist[h].from = "origin" /\ rq[h].link = rq[r].link) =>
                /\ Has(subtitleCache, key)
                /\ pc'[r] # "lock_ret" =>
                     /\ pc'[r] = "done" /\ hist'[r].from = "wait" /\ ~hist'[r].fetched
                     /\ resp'[r] = sendSub(subtitleCache[key].content,
                                           subtitleCache[key].filename, rq[r].cfg.omni)]_vars

\* a request has answered from the entry a successful fetch for its id and
\* link token wrote, after waiting for that fetch's lock, and the lock entry
\* is gone
C36_Witness ==
  \E r \in Reqs :
    LET h == hist[r].waitedOn
        key == cacheKey(rq[r].sub, rq[r].link)
    IN  /\ h # 0 /\ pc[r] = "done" /\ hist[r].from = "wait" /\ ~hist[r].fetched
        /\ hist[h].from = "origin" /\ rq[h].link = rq[r].link /\ rq[h].sub = rq[r].sub
        /\ Has(subtitleCache, key) /\ ~Has(downloadLocks, lockId(rq[r].sub))
        /\ resp[r] = sendSub(subtitleCache[key].content, subtitleCache[key].filename,
                             rq[r].cfg.omni)

\* the origin fetch of r is under way: from the creation of its lock on
UnderWay(r) == pc[r] \in Section

Tiers == <<subtitleCache, r2, r2CachedIds, puts>>

\* C37: a call whose origin fetch fails leaves the local cache, the durable
\* store and the existence index exactly as they were before the call
C37_FailedFetchChangesNothing ==
  [][\A r \in Reqs :
       /\ (UnderWay(r) /\ pc'[r] # pc[r] /\ hist'[r].from # "origin") => UNCHANGED Tiers
       /\ (UnderWay(r) /\ pc'[r] = "done" /\ hist'[r].from \in {"limit", "error"}) =>
            ~hist'[r].expired]_vars

\* C37, amended: no step of an origin fetch that does not end with a file
\* changes the local cache, the durable store, its pending puts or the
\* existence index; before the fetch the call has changed nothing but,
\* when it arrived, deleted the expired entry of its own key
C37_FailedFetchStoresNothing ==
  [][\A r \in Reqs :
       LET key == cacheKey(rq[r].sub, rq[r].link) IN
       /\ (UnderWay(r) /\ pc'[r] # pc[r] /\ hist'[r].from # "origin") => UNCHANGED Tiers
       /\ (pc[r] \in {"r2_get", "r2_ret", "lock_ret"} /\ pc'[r] # pc[r]
             /\ (pc'[r] = "done" => hist'[r].from \notin {"r2", "wait"})) => UNCHANGED Tiers
       /\ (pc[r] = "idle" /\ pc'[r] # "idle") =>
            /\ UNCHANGED <<r2, r2CachedIds, puts>>
            /\ subtitleCache' =
                 IF pc'[r] # "done" /\ Has(subtitleCache, key)
                        /\ subtitleCache[key].age >= SUBTITLE_CACHE_TTL
                   THEN MapDel(subtitleCache, key) ELSE subtitleCache
            /\ hist'[r].expired = (subtitleCache' # subtitleCache)]_vars

\* a call that deleted the expired entry of its key has ended with the limit
\* message after a fetch, and the cache holds no entry of the key
C37_Witness ==
  \E r \in Reqs :
    /\ pc[r] = "done" /\ hist[r].fetched /\ hist[r].from = "limit" /\ hist[r].expired
    /\ ~Has(subtitleCache, cacheKey(rq[r].sub, rq[r].link))

\* C38: of two requests of one username, not both have a login of
\* getClient in flight, and both hold the same session
C38_OneSessionPerUsername ==
  \A a, b \in Reqs :
    (a # b /\ rq[a].cfg.ok /\ rq[b].cfg.ok /\ rq[a].cfg.username = rq[b].cfg.username) =>
      /\ ~(pc[a] = "gc_login" /\ pc[b] = "gc_login")
      /\ (cl[a] # 0 /\ cl[b] # 0) => cl[a] = cl[b]

\* a request that finds the username's session in clientCache, flagged
\* logged in, takes that session and starts no login in getClient
SharesCachedSession ==
  [][\A r \in Reqs :
       LET u == rq[r].cfg.username IN
       (pc[r] \in {"r2_ret", "lock_ret"} /\ pc'[r] \in Section
          /\ Has(clientCache, u) /\ clients[clientCache[u]].loggedIn) =>
         /\ cl'[r] = clientCache[u]
         /\ pc'[r] # "gc_login"
         /\ clients' = clients]_vars

\* the custom-delete handler removes the object of its key in this step
CustomDeleted ==
  adm.pc = "cd_del" /\ Has(r2, adm.key) /\ ~Has(r2', adm.key)

\* C39: custom-delete removes an object only when its key is under custom/
\* and the requester is an admin or the uploader the object's metadata
\* records, also when the read of the metadata failed
C39_DeleteOnlyByAdminOrUploader ==
  [][CustomDeleted =>
       /\ isCustomKey(adm.key)
       /\ \/ isAdmin(adm.user)
          \/ Lower(uploaderOf(r2[adm.key])) = Lower(adm.user)]_vars

\* no object is removed but by custom-delete, of a key under custom/; and a
\* request whose read of the metadata was answered with the object goes on
\* to the delete only for an admin or the uploader
DeleteAfterAnsweredRead ==
  [][/\ (\E k \in DOMAIN r2 : ~Has(r2', k)) => (CustomDeleted /\ isCustomKey(adm.key))
     /\ (adm.pc = "cd_get" /\ adm'.pc = "cd_del" /\ Has(r2, adm.key)
           /\ ~(isAdmin(adm.user) \/ Lower(uploaderOf(r2[adm.key])) = Lower(adm.user)))
          => \E err \in {TRUE} : CustomDeleteGetResponse(err)]_vars

\* call c stores its list in this step
Saves(c) ==
  /\ c \in DOMAIN call.calls
  /\ call.calls[c].pc = "save" /\ call'.calls[c].pc = "done" /\ call'.calls[c].saved

\* calls c and d ran beside each other
Interleaved(c, d) == c \in call.calls[d].beside \/ d \in call.calls[c].beside

InList(item, items) == \E k \in DOMAIN items : items[k] = item

\* C40: the stored history has at most 10 items with distinct ids and a call
\* that stores puts its item first; and when two calls interleave, the item
\* one of them has stored is not lost when the other stores
C40_BoundsAndNoLostItem ==
  [][call.op = "history" =>
       /\ Len(call'.stored.items) <= HISTORY_LENGTH
       /\ \A j, k \in DOMAIN call'.stored.items :
            j # k => call'.stored.items[j].id # call'.stored.items[k].id
       /\ \A c \in DOMAIN call.calls :
            Saves(c) =>
              /\ call'.stored.items[1] = call.calls[c].item
              /\ \A d \in DOMAIN call.calls :
                   ( /\ Interleaved(c, d) /\ call.calls[d].saved
                     /\ call.calls[d].item.id # call.calls[c].item.id
                     /\ InList(call.calls[d].item, call.stored.items) )
                   => InList(call.calls[d].item, call'.stored.items)]_vars

\* the bounds, the first place, and for a call that ran beside no other and
\* read the stored list: the list stored is the stored list without the
\* item's id, the item before it, cut to 10
HistoryBoundsAndLoneCalls ==
  [][call.op = "history" =>
       /\ Len(call'.stored.items) <= HISTORY_LENGTH
       /\ \A j, k \in DOMAIN call'.stored.items :
            j # k => call'.stored.items[j].id # call'.stored.items[k].id
       /\ \A c \in DOMAIN call.calls :
            Saves(c) =>
              /\ call'.stored.items[1] = call.calls[c].item
              /\ ( /\ call.calls[c].beside = {}
                   /\ \A d \in DOMAIN call.calls : c \notin call.calls[d].beside
                   /\ call.calls[c].read )
                 => call'.stored.items
                      = addToHistory(call.stored.items, call.calls[c].item)]_vars

====
